---------------------------- MODULE Spec2Model ----------------------------
(***************************************************************************)
(* Model of boilerplate/openshift/golang-osd-operator/olm_pko_migration.py *)
(* (conversion of OLM manifests to Package Operator format).               *)
(*                                                                         *)
(* YAML values are tagged records: [t |-> "null"], [t |-> "str", v |-> s], *)
(* [t |-> "map", v |-> f] (f a function from key strings to YAML values)   *)
(* and [t |-> "seq", v |-> s] (s a sequence of YAML values).  A Python     *)
(* dict is the function of its keys; a call that may raise returns a       *)
(* record [exc |-> ..., ...] whose exc is "none" on a normal return and    *)
(* carries the object(s) the call mutates in place as they are when the    *)
(* call ends.                                                              *)
(***************************************************************************)
EXTENDS Integers, Sequences, FiniteSets, TLC

VARIABLES
  fn,          \* unit runs: the function under call ("none" in a pipeline run)
  arg,         \* unit runs: the arguments of the call
  hist,        \* unit runs: the results of the calls made so far, in order
  pc,          \* modify_manifests: position of the run
  src,         \* modify_manifests: the source tree (path, recursive flag, nodes)
  opname,      \* modify_manifests: what get_operator_name() returns
  manifests,   \* modify_manifests: the strings load_manifests returned
  annotated,   \* modify_manifests: the list annotate_manifests returned
  widx,        \* modify_manifests: index of the next manifest to write
  out,         \* modify_manifests: the output directory
  exc,         \* modify_manifests: the exception that ended the run ("none")
  wlog,        \* modify_manifests: the files written so far, in order
  printed,     \* modify_manifests, main: the diagnostics printed so far, in order
  env,         \* main: the working directory (git repository, build/, .tekton/)
  status,      \* main: the exit status of the process ("none" while it runs)
  aux          \* main: the files written outside the output directory

vars == <<fn, arg, hist, pc, src, opname, manifests, annotated, widx, out, exc, wlog, printed,
          env, status, aux>>

---------------------------------------------------------------------------
(* PKO constants, olm_pko_migration.py lines 20-30.                        *)

PKO_PHASE_ANNOTATION == "package-operator.run/phase"
PKO_COLLISION_PROTECTION_ANNOTATION == "package-operator.run/collision-protection"
PKO_COLLISION_PROTECTION_VALUE == "IfNoController"

PHASE_CRDS == "crds"
PHASE_NAMESPACE == "namespace"
PHASE_RBAC == "rbac"
PHASE_DEPLOY == "deploy"
PHASE_CLEANUP_RBAC == "cleanup-rbac"
PHASE_CLEANUP_DEPLOY == "cleanup-deploy"

\* The literal set_image_template writes into every container.
IMAGE_TEMPLATE == "{{ .config.image }}"

---------------------------------------------------------------------------
(* YAML values and Python dict operations.                                 *)

YNull == [t |-> "null"]
YStr(s) == [t |-> "str", v |-> s]
YMap(f) == [t |-> "map", v |-> f]
YSeq(s) == [t |-> "seq", v |-> s]

\* The empty dict {}.
EmptyDict == [k \in {} |-> YNull]

\* d[k] = v on a dict.
DictSet(d, k, v) == [x \in (DOMAIN d) \cup {k} |-> IF x = k THEN v ELSE d[x]]

\* d.pop(k, None) on a dict.
DictPop(d, k) == [x \in (DOMAIN d) \ {k} |-> d[x]]

\* d.get(k): the value, None when the key is missing.
DictGet(d, k) == IF k \in DOMAIN d THEN d[k] ELSE YNull

\* y[k] read on any value y: KeyError on a dict without the key, TypeError
\* on None, a string or a list (a string key indexes none of them).
GetItem(y, k) ==
  IF y.t = "map"
    THEN IF k \in DOMAIN y.v THEN [exc |-> "none", val |-> y.v[k]]
                             ELSE [exc |-> "KeyError", val |-> YNull]
    ELSE [exc |-> "TypeError", val |-> YNull]

\* Python truthiness of a parsed document.
Truthy(y) ==
  CASE y.t = "null" -> FALSE
    [] y.t = "str"  -> y.v # ""
    [] y.t = "map"  -> DOMAIN y.v # {}
    [] y.t = "seq"  -> Len(y.v) > 0

\* str(y) as an f-string formats it, for the values a kind or a name takes.
PyStr(y) ==
  CASE y.t = "null" -> "None"
    [] y.t = "str"  -> y.v

---------------------------------------------------------------------------
(* annotate, lines 508-518.  The manifest is mutated in place; the record  *)
(* returned holds it as the call leaves it.                                *)

\* Mutant: the phase is accumulated onto a phase already present.
annotate_accumulating(manifest, annotation) ==
  LET md == IF "metadata" \in DOMAIN manifest /\ manifest["metadata"].t = "map"
              THEN manifest["metadata"].v ELSE EmptyDict
      an == IF "annotations" \in DOMAIN md /\ md["annotations"].t = "map"
              THEN md["annotations"].v ELSE EmptyDict
      ph == IF PKO_PHASE_ANNOTATION \in DOMAIN an /\ an[PKO_PHASE_ANNOTATION].t = "str"
              THEN an[PKO_PHASE_ANNOTATION].v \o "," \o annotation
              ELSE annotation
      an2 == DictSet(DictSet(an, PKO_PHASE_ANNOTATION, YStr(ph)),
                     PKO_COLLISION_PROTECTION_ANNOTATION,
                     YStr(PKO_COLLISION_PROTECTION_VALUE))
  IN [exc |-> "none",
      manifest |-> DictSet(manifest, "metadata", YMap(DictSet(md, "annotations", YMap(an2))))]

\* Mutant: the annotations mapping is rebuilt instead of updated.
annotate_rebuilding(manifest, annotation) ==
  LET md == IF "metadata" \in DOMAIN manifest /\ manifest["metadata"].t = "map"
              THEN manifest["metadata"].v ELSE EmptyDict
      an2 == DictSet(DictSet(EmptyDict, PKO_PHASE_ANNOTATION, YStr(annotation)),
                     PKO_COLLISION_PROTECTION_ANNOTATION,
                     YStr(PKO_COLLISION_PROTECTION_VALUE))
  IN [exc |-> "none",
      manifest |-> DictSet(manifest, "metadata", YMap(DictSet(md, "annotations", YMap(an2))))]

annotate(manifest, annotation) ==
  LET \* lines 510-511
      m1 == IF "metadata" \notin DOMAIN manifest
              THEN DictSet(manifest, "metadata", YMap(EmptyDict))
              ELSE manifest
      md == m1["metadata"]
  IN IF md.t # "map"
       \* line 512: "annotations" not in None raises; on a string or a list
       \* the test passes and the item assignment of line 513 or 515 raises
       THEN [exc |-> "TypeError", manifest |-> m1]
       ELSE LET \* lines 512-513
                md1 == IF "annotations" \notin DOMAIN md.v
                         THEN DictSet(md.v, "annotations", YMap(EmptyDict))
                         ELSE md.v
                an == md1["annotations"]
            IN IF an.t # "map"
                 \* line 515: item assignment on None, a string or a list
                 THEN [exc |-> "TypeError",
                       manifest |-> DictSet(m1, "metadata", YMap(md1))]
                 ELSE LET \* lines 515-516
                          an1 == DictSet(an.v, PKO_PHASE_ANNOTATION, YStr(annotation))
                          an2 == DictSet(an1, PKO_COLLISION_PROTECTION_ANNOTATION,
                                         YStr(PKO_COLLISION_PROTECTION_VALUE))
                      IN [exc |-> "none",
                          manifest |-> DictSet(m1, "metadata",
                                         YMap(DictSet(md1, "annotations", YMap(an2))))]

---------------------------------------------------------------------------
(* set_image_template, lines 521-529.                                      *)

\* Mutant: only the first container is rewritten.
RECURSIVE RewriteImages_first_only(_, _)
RewriteImages_first_only(containers, i) ==
  IF i > Len(containers) \/ i > 1 THEN [exc |-> "none", val |-> containers]
  ELSE IF containers[i].t # "map" THEN [exc |-> "TypeError", val |-> containers]
  ELSE RewriteImages_first_only(
         [containers EXCEPT ![i] = YMap(DictSet(containers[i].v, "image", YStr(IMAGE_TEMPLATE)))],
         i + 1)

\* The loop of lines 525-526 over a list from entry i on: the list as the
\* loop leaves it and the exception that ended it.  Item assignment on an
\* entry that is not a mapping raises TypeError; the entries before it are
\* already rewritten.
RECURSIVE RewriteImages(_, _)
RewriteImages(containers, i) ==
  IF i > Len(containers) THEN [exc |-> "none", val |-> containers]
  ELSE IF containers[i].t # "map" THEN [exc |-> "TypeError", val |-> containers]
  ELSE RewriteImages(
         [containers EXCEPT ![i] = YMap(DictSet(containers[i].v, "image", YStr(IMAGE_TEMPLATE)))],
         i + 1)

\* "for container in containers: container['image'] = ..." on the object
\* line 524 bound to containers.  A list is rewritten entry by entry; a
\* dict iterates its keys and a string its characters, and the item
\* assignment on the first of them raises; None is not iterable.
LoopContainers(containers) ==
  CASE containers.t = "seq" ->
         LET r == RewriteImages(containers.v, 1) IN [exc |-> r.exc, val |-> YSeq(r.val)]
    [] containers.t = "null" -> [exc |-> "TypeError", val |-> containers]
    [] containers.t = "str" ->
         [exc |-> IF containers.v = "" THEN "none" ELSE "TypeError", val |-> containers]
    [] containers.t = "map" ->
         [exc |-> IF DOMAIN containers.v = {} THEN "none" ELSE "TypeError", val |-> containers]

\* Mutant: only a missing key is swallowed.
SwallowedBySetImage_key_only == {"KeyError"}

\* Line 527: the exceptions the except clause swallows.
SwallowedBySetImage == {"KeyError", "TypeError"}

set_image_template(manifest) ==
  LET \* line 524
      g1 == GetItem(YMap(manifest), "spec")
      g2 == IF g1.exc = "none" THEN GetItem(g1.val, "template") ELSE g1
      g3 == IF g2.exc = "none" THEN GetItem(g2.val, "spec") ELSE g2
      g4 == IF g3.exc = "none" THEN GetItem(g3.val, "containers") ELSE g3
      \* lines 525-526
      loop == IF g4.exc = "none" THEN LoopContainers(g4.val) ELSE g4
      after == IF g4.exc # "none" THEN manifest
               ELSE LET podspec == DictSet(g3.val.v, "containers", loop.val)
                        template == DictSet(g2.val.v, "spec", YMap(podspec))
                        spec == DictSet(g1.val.v, "template", YMap(template))
                    IN DictSet(manifest, "spec", YMap(spec))
  IN \* lines 527-529
     [exc |-> IF loop.exc \in SwallowedBySetImage THEN "none" ELSE loop.exc,
      manifest |-> after]

---------------------------------------------------------------------------
(* get_pko_manifest, lines 405-451.                                        *)

\* {"name": n}
NameEntry(n) == YMap([k \in {"name"} |-> YStr(n)])

\* Mutant: the namespace phase is left out of the list.
PkoPhases_without_namespace ==
  <<NameEntry(PHASE_CRDS), NameEntry(PHASE_RBAC),
    NameEntry(PHASE_DEPLOY), NameEntry(PHASE_CLEANUP_RBAC), NameEntry(PHASE_CLEANUP_DEPLOY)>>

\* Lines 416-423.
PkoPhases ==
  <<NameEntry(PHASE_CRDS), NameEntry(PHASE_NAMESPACE), NameEntry(PHASE_RBAC),
    NameEntry(PHASE_DEPLOY), NameEntry(PHASE_CLEANUP_RBAC), NameEntry(PHASE_CLEANUP_DEPLOY)>>

\* Lines 424-437.
PkoAvailabilityProbes ==
  <<YMap([k \in {"probes", "selector"} |->
      IF k = "probes"
        THEN YSeq(<<YMap([c \in {"condition"} |->
                      YMap([x \in {"type", "status"} |->
                        IF x = "type" THEN YStr("Available") ELSE YStr("True")])]),
                    YMap([c \in {"fieldsEqual"} |->
                      YMap([x \in {"fieldA", "fieldB"} |->
                        IF x = "fieldA" THEN YStr(".status.updatedReplicas")
                                        ELSE YStr(".status.replicas")])])>>)
        ELSE YMap([c \in {"kind"} |->
               YMap([x \in {"group", "kind"} |->
                 IF x = "group" THEN YStr("apps") ELSE YStr("Deployment")])])])>>

\* Lines 438-449 ("type": "object" sits inside "properties", as written).
PkoConfig ==
  YMap([k \in {"openAPIV3Schema"} |->
    YMap([p \in {"properties"} |->
      YMap([x \in {"image", "type"} |->
        IF x = "type" THEN YStr("object")
        ELSE YMap([f \in {"description", "type", "default"} |->
               CASE f = "description" -> YStr("Operator image to deploy")
                 [] f = "type" -> YStr("string")
                 [] f = "default" -> YStr("None")])])])])

get_pko_manifest(operator_name) ==
  [k \in {"apiVersion", "kind", "metadata", "spec"} |->
    CASE k = "apiVersion" -> YStr("manifests.package-operator.run/v1alpha1")
      [] k = "kind" -> YStr("PackageManifest")
      [] k = "metadata" ->
           YMap([x \in {"name", "annotations"} |->
             IF x = "name" THEN YStr(operator_name)
             ELSE YMap([a \in {"name"} |-> YStr("annotation")])])
      [] k = "spec" ->
           YMap([x \in {"scopes", "phases", "availabilityProbes", "config"} |->
             CASE x = "scopes" -> YSeq(<<YStr("Cluster")>>)
               [] x = "phases" -> YSeq(PkoPhases)
               [] x = "availabilityProbes" -> YSeq(PkoAvailabilityProbes)
               [] x = "config" -> PkoConfig])]

---------------------------------------------------------------------------
(* File contents and the YAML library.  A text is what a file holds or a   *)
(* string a function is handed: [t |-> "yaml", docs |-> d] is a well       *)
(* formed YAML stream of the documents d (none for an empty or comment     *)
(* only text), [t |-> "garbage"] a text the YAML scanner rejects, and      *)
(* [t |-> "template", ...] the rendering of one of the module's templates. *)

YamlText(docs) == [t |-> "yaml", docs |-> docs]
GarbageText == [t |-> "garbage"]
TemplateText(template, operator_name) ==
  [t |-> "template", template |-> template, operator_name |-> operator_name]

\* yaml.safe_load(text): None for an empty stream, the document of a one
\* document stream, and yaml.YAMLError (ScannerError/ParserError for a
\* malformed text, ComposerError for a stream of several documents).
safe_load(text) ==
  CASE text.t = "garbage" -> [exc |-> "YAMLError", val |-> YNull]
    [] text.t = "yaml" ->
         IF Len(text.docs) = 0 THEN [exc |-> "none", val |-> YNull]
         ELSE IF Len(text.docs) > 1 THEN [exc |-> "YAMLError", val |-> YNull]
         ELSE [exc |-> "none", val |-> text.docs[1]]

\* yaml.dump(manifest, f, ...): the one-document stream of the manifest.
yaml_dump(manifest) == YamlText(<<YMap(manifest)>>)

---------------------------------------------------------------------------
(* annotate_manifests, lines 532-568.                                      *)

\* kind == s, for the kind manifest.get("kind") returned.
KindIs(kind, s) == kind.t = "str" /\ kind.v = s

\* kind in [...]
KindIn(kind, S) == kind.t = "str" /\ kind.v \in S

\* Mutant: ServiceAccount falls through to the else branch and Service is
\* annotated with the rbac phase.
KindPhase_shifted(kind) ==
  IF KindIs(kind, "CustomResourceDefinition") THEN PHASE_CRDS
  ELSE IF KindIn(kind, {"ClusterRole", "ClusterRoleBinding"}) THEN PHASE_RBAC
  ELSE IF KindIn(kind, {"Role", "RoleBinding"}) THEN PHASE_RBAC
  ELSE IF KindIs(kind, "Service") THEN PHASE_RBAC
  ELSE IF KindIs(kind, "Deployment") THEN PHASE_DEPLOY
  ELSE IF KindIs(kind, "ServiceMonitor") THEN PHASE_DEPLOY
  ELSE ""

\* Mutant: a manifest of kind Namespace is given the namespace phase.
KindPhase_with_namespace(kind) ==
  IF KindIs(kind, "CustomResourceDefinition") THEN PHASE_CRDS
  ELSE IF KindIs(kind, "Namespace") THEN PHASE_NAMESPACE
  ELSE IF KindIn(kind, {"ClusterRole", "ClusterRoleBinding"}) THEN PHASE_RBAC
  ELSE IF KindIn(kind, {"Role", "RoleBinding"}) THEN PHASE_RBAC
  ELSE IF KindIs(kind, "ServiceAccount") THEN PHASE_RBAC
  ELSE IF KindIs(kind, "Service") THEN PHASE_DEPLOY
  ELSE IF KindIs(kind, "Deployment") THEN PHASE_DEPLOY
  ELSE IF KindIs(kind, "ServiceMonitor") THEN PHASE_DEPLOY
  ELSE ""

\* The phase the chain of lines 544-559 annotates a kind with, "" when the
\* chain ends in the else branch of line 560.
KindPhase(kind) ==
  IF KindIs(kind, "CustomResourceDefinition") THEN PHASE_CRDS
  ELSE IF KindIn(kind, {"ClusterRole", "ClusterRoleBinding"}) THEN PHASE_RBAC
  ELSE IF KindIn(kind, {"Role", "RoleBinding"}) THEN PHASE_RBAC
  ELSE IF KindIs(kind, "ServiceAccount") THEN PHASE_RBAC
  ELSE IF KindIs(kind, "Service") THEN PHASE_DEPLOY
  ELSE IF KindIs(kind, "Deployment") THEN PHASE_DEPLOY
  ELSE IF KindIs(kind, "ServiceMonitor") THEN PHASE_DEPLOY
  ELSE ""

\* Line 564: the exceptions the except clause of the loop catches.
CaughtByAnnotateManifests == {"YAMLError"}

\* The body of the loop of line 536 for the manifest strings from i on;
\* acc is the list annotated and diag the diagnostics printed so far.  An
\* exception other than yaml.YAMLError leaves the function: nothing is
\* returned.
RECURSIVE AnnotateFrom(_, _, _, _)
AnnotateFrom(strs, i, acc, diag) ==
  IF i > Len(strs) THEN [exc |-> "none", annotated |-> acc, diag |-> diag]
  ELSE
    LET loaded == safe_load(strs[i]) IN
    IF loaded.exc \in CaughtByAnnotateManifests
      \* lines 564-566
      THEN AnnotateFrom(strs, i + 1, acc, Append(diag, "Error parsing manifest"))
    ELSE IF loaded.exc # "none"
      THEN [exc |-> loaded.exc, annotated |-> <<>>, diag |-> diag]
    ELSE IF ~Truthy(loaded.val) \/ loaded.val.t # "map"
      \* lines 539-540
      THEN AnnotateFrom(strs, i + 1, acc, diag)
    ELSE
      LET manifest == loaded.val.v
          kind == DictGet(manifest, "kind")
          phase == KindPhase(kind)
      IN IF phase = ""
           \* lines 560-562
           THEN AnnotateFrom(strs, i + 1, Append(acc, manifest),
                             Append(diag, "Unhandled type"))
           ELSE
             LET a == annotate(manifest, phase) IN
             IF a.exc # "none"
               THEN [exc |-> a.exc, annotated |-> <<>>, diag |-> diag]
               ELSE IF KindIs(kind, "Deployment")
                 \* lines 555-557
                 THEN LET st == set_image_template(a.manifest)
                      IN IF st.exc # "none"
                           THEN [exc |-> st.exc, annotated |-> <<>>, diag |-> diag]
                           ELSE AnnotateFrom(strs, i + 1, Append(acc, st.manifest), diag)
                 ELSE AnnotateFrom(strs, i + 1, Append(acc, a.manifest), diag)

annotate_manifests(strs) == AnnotateFrom(strs, 1, <<>>, <<>>)

---------------------------------------------------------------------------
(* write_manifest, lines 571-603.  A directory is [exists |-> b,           *)
(* files |-> f], f the function from the names of its files to their       *)
(* texts.  filename is YNull for the default None.                         *)

NoDir == [exists |-> FALSE, files |-> EmptyDict]

\* Line 587: the kinds that are written only when forced.
SkippedKinds == {"ClusterPackage", "Package", "PackageManifest"}

\* Mutant: every kind gets the plain extension.
ManifestExt_plain(kind) == ".yaml"

\* Line 596.
ManifestExt(kind) == IF KindIs(kind, "Deployment") THEN ".yaml.gotmpl" ELSE ".yaml"

write_manifest(manifest, directory, filename, force) ==
  LET \* line 583
      kind == DictGet(manifest, "kind")
      \* line 584: manifest.get("metadata", {})
      metadata == IF "metadata" \in DOMAIN manifest THEN manifest["metadata"]
                  ELSE YMap(EmptyDict)
  IN IF metadata.t # "map"
       \* line 584: None, a string and a list have no method get
       THEN [exc |-> "AttributeError", dir |-> directory, wrote |-> <<>>]
       ELSE
         LET name == IF "name" \in DOMAIN metadata.v THEN metadata.v["name"]
                     ELSE YStr("unknown")
         IN IF ~force /\ (kind.t = "null" \/ KindIn(kind, SkippedKinds))
              \* lines 587-588
              THEN [exc |-> "none", dir |-> directory, wrote |-> <<>>]
              ELSE
                LET \* lines 595-597
                    fname == IF filename.t = "null"
                               THEN PyStr(kind) \o "-" \o PyStr(name) \o ManifestExt(kind)
                               ELSE filename.v
                IN \* lines 591-592 and 599-603
                   [exc |-> "none",
                    dir |-> [exists |-> TRUE,
                             files |-> DictSet(directory.files, fname, yaml_dump(manifest))],
                    wrote |-> <<fname>>]

---------------------------------------------------------------------------
(* The source tree and get_manifest_files, lines 454-482.  A tree is       *)
(* [exists |-> b, nodes |-> N]: whether the root path exists and the nodes *)
(* beneath it, each [path |-> p, type |-> "file" or "dir", readable |-> b, *)
(* text |-> what the file holds], p the sequence of names from the root.   *)

\* The names the trees are built from, in the order Python sorts strings.
Names == <<".yml", "a.txt", "a.yaml", "a.yml", "b.yaml", "sub">>

\* A name split at its dots, each dot an entry of its own.
NameParts(name) ==
  CASE name = ".yml"   -> <<".", "yml">>
    [] name = "a.txt"  -> <<"a", ".", "txt">>
    [] name = "a.yaml" -> <<"a", ".", "yaml">>
    [] name = "a.yml"  -> <<"a", ".", "yml">>
    [] name = "b.yaml" -> <<"b", ".", "yaml">>
    [] name = "sub"    -> <<"sub">>

\* The position of a name in the order of Python's string comparison.
NameRank(name) == CHOOSE i \in 1..Len(Names) : Names[i] = name

RECURSIVE JoinParts(_)
JoinParts(parts) == IF parts = <<>> THEN "" ELSE Head(parts) \o JoinParts(Tail(parts))

\* Path.suffix of a final component: the text from the last dot on, unless
\* that dot opens or closes the name.
PathSuffix(name) ==
  LET parts == NameParts(name)
      dots == {i \in 1..Len(parts) : parts[i] = "."}
  IN IF dots = {} THEN ""
     ELSE LET i == CHOOSE d \in dots : \A e \in dots : e <= d
          IN IF i > 1 /\ i < Len(parts) THEN JoinParts(SubSeq(parts, i, Len(parts)))
             ELSE ""

\* Whether a name matches the glob pattern '*' + ext of line 475: it ends
\* with ext ('*' matches the empty string and a leading dot as well).
GlobMatches(name, ext) ==
  LET parts == NameParts(name)
  IN Len(parts) >= 2 /\ JoinParts(SubSeq(parts, Len(parts) - 1, Len(parts))) = ext

\* Mutant: only the .yaml extension is recognized.
yaml_extensions_yaml_only == {".yaml"}

\* Line 469.
yaml_extensions == {".yaml", ".yml"}

\* Path.is_file()
IsFile(node) == node.type = "file"

\* Mutant: the recursive flag is ignored and the whole tree is searched.
get_manifest_files_always_recursive(tree, recursive) ==
  IF ~tree.exists THEN {}
  ELSE {n.path : n \in {m \in tree.nodes :
          /\ \E ext \in yaml_extensions : GlobMatches(m.path[Len(m.path)], ext)
          /\ IsFile(m)}}

\* The paths returned, as a set: the order of the list is that of the
\* directory scan and of the iteration of the set of line 469.
get_manifest_files(tree, recursive) ==
  IF ~tree.exists
    \* lines 466-467
    THEN {}
  ELSE IF recursive
    \* lines 473-476: rglob visits every node beneath the root
    THEN {n.path : n \in {m \in tree.nodes :
            /\ \E ext \in yaml_extensions : GlobMatches(m.path[Len(m.path)], ext)
            /\ IsFile(m)}}
    \* lines 479-482: iterdir lists the children of the root
    ELSE {n.path : n \in {m \in tree.nodes :
            /\ Len(m.path) = 1
            /\ IsFile(m)
            /\ PathSuffix(m.path[1]) \in yaml_extensions}}

---------------------------------------------------------------------------
(* load_manifests, lines 485-505.                                          *)

\* p < q for two paths under the same root: Path compares the sequences of
\* components.
RECURSIVE PathLess(_, _)
PathLess(p, q) ==
  IF q = <<>> THEN FALSE
  ELSE IF p = <<>> THEN TRUE
  ELSE IF Head(p) = Head(q) THEN PathLess(Tail(p), Tail(q))
  ELSE NameRank(Head(p)) < NameRank(Head(q))

\* sorted(files)
RECURSIVE SortedPaths(_)
SortedPaths(S) ==
  IF S = {} THEN <<>>
  ELSE LET first == CHOOSE p \in S : \A q \in S \ {p} : PathLess(p, q)
       IN <<first>> \o SortedPaths(S \ {first})

NodeAt(tree, path) == CHOOSE n \in tree.nodes : n.path = path

\* The loop of lines 498-504 over the sorted paths from i on.
RECURSIVE ReadFrom(_, _, _, _, _)
ReadFrom(tree, paths, i, acc, diag) ==
  IF i > Len(paths) THEN [manifests |-> acc, diag |-> diag]
  ELSE LET node == NodeAt(tree, paths[i])
       IN IF node.readable
            THEN ReadFrom(tree, paths, i + 1, Append(acc, node.text), diag)
            \* lines 503-504: open or read raises OSError
            ELSE ReadFrom(tree, paths, i + 1, acc, Append(diag, "Could not read"))

load_manifests(tree, recursive) ==
  ReadFrom(tree, SortedPaths(get_manifest_files(tree, recursive)), 1, <<>>, <<>>)

---------------------------------------------------------------------------
(* Bounds of the inputs.                                                   *)

\* Most entries of a container list.
MaxContainers == 2
\* Most manifest strings handed to one call of annotate_manifests.
MaxDocs == 2
\* Most nodes of a tree handed to one call of get_manifest_files.
MaxNodes == 3
\* Most files of the source tree of a run of modify_manifests.
MaxFiles == 2

---------------------------------------------------------------------------
(* The manifests, texts and trees the calls and runs are given.            *)

\* Marks a key that the manifest does not have.
Absent == [t |-> "absent"]

\* The dict of the keys among key/value pairs whose value is not Absent.
DictOf(pairs) == [k \in {x \in DOMAIN pairs : pairs[x] # Absent} |-> pairs[k]]

MkManifest(kind, metadata, spec) ==
  DictOf([k \in {"apiVersion", "kind", "metadata", "spec"} |->
            CASE k = "apiVersion" -> YStr("v1")
              [] k = "kind" -> kind
              [] k = "metadata" -> metadata
              [] k = "spec" -> spec])

MkMetadata(name, annotations) ==
  YMap(DictOf([k \in {"name", "namespace", "annotations"} |->
                 CASE k = "name" -> name
                   [] k = "namespace" -> YStr("ns")
                   [] k = "annotations" -> annotations]))

RecognizedKinds ==
  {"CustomResourceDefinition", "ClusterRole", "ClusterRoleBinding", "Role",
   "RoleBinding", "ServiceAccount", "Service", "ServiceMonitor", "Deployment"}

AllKinds ==
  {YStr(k) : k \in RecognizedKinds \cup {"ConfigMap", "Namespace"} \cup
                   {"ClusterPackage", "Package", "PackageManifest"}}
  \cup {Absent, YNull}

AnnotationKeys == {"existing", PKO_PHASE_ANNOTATION, PKO_COLLISION_PROTECTION_ANNOTATION}

AnnotationDicts == UNION {[D -> {YStr("value"), YStr(PHASE_CRDS)}] : D \in SUBSET AnnotationKeys}

AnnotationOpts == {Absent, YNull, YStr("oops")} \cup {YMap(d) : d \in AnnotationDicts}

MetadataOpts(names, annotations) ==
  {Absent, YNull, YStr("oops"), YSeq(<<>>)}
  \cup {MkMetadata(n, a) : n \in names, a \in annotations}

ContainerOpts ==
  {YMap([k \in {"name", "image"} |-> IF k = "name" THEN YStr("operator") ELSE YStr("X")]),
   YMap([k \in {"image"} |-> YStr("Y")]),
   YMap([k \in {"name"} |-> YStr("sidecar")]),
   YStr("oops")}

ContainerLists == UNION {[1..n -> ContainerOpts] : n \in 0..MaxContainers}

\* A Deployment's spec around a value of spec.template.spec.containers.
PodTemplateSpec(containers) ==
  YMap([k \in {"replicas", "template"} |->
    IF k = "replicas" THEN YStr("1")
    ELSE YMap([x \in {"metadata", "spec"} |->
           IF x = "metadata" THEN YMap(EmptyDict)
           ELSE YMap([y \in {"serviceAccountName", "containers"} |->
                  IF y = "containers" THEN containers ELSE YStr("sa")])])])

SpecOpts ==
  {Absent, YNull, YStr("oops"), YMap(EmptyDict),
   YMap([k \in {"template"} |-> YNull]),
   YMap([k \in {"template"} |-> YMap(EmptyDict)]),
   YMap([k \in {"template"} |-> YMap([x \in {"spec"} |-> YMap(EmptyDict)])]),
   PodTemplateSpec(YNull), PodTemplateSpec(YStr("oops")),
   PodTemplateSpec(YMap(EmptyDict)),
   PodTemplateSpec(YMap([k \in {"operator"} |-> YStr("X")]))}
  \cup {PodTemplateSpec(YSeq(c)) : c \in ContainerLists}

OneContainer(image) ==
  PodTemplateSpec(YSeq(<<YMap([k \in {"name", "image"} |->
                            IF k = "name" THEN YStr("operator") ELSE YStr(image)])>>))

AllPhases ==
  {PHASE_CRDS, PHASE_NAMESPACE, PHASE_RBAC, PHASE_DEPLOY, PHASE_CLEANUP_RBAC,
   PHASE_CLEANUP_DEPLOY}

OperatorNames == {"certman-operator", "unknown-operator"}

Doc(manifest) == YamlText(<<YMap(manifest)>>)

\* The output directory as a run or a call may find it.
StaleDir ==
  [exists |-> TRUE,
   files |-> [f \in {"ConfigMap-a.yaml", "old.yaml"} |-> YamlText(<<>>)]]

EmptyDir == [exists |-> TRUE, files |-> EmptyDict]

\* Sets of at most n elements of S.
RECURSIVE SubsetsUpTo(_, _)
SubsetsUpTo(S, n) ==
  IF n = 0 THEN {{}}
  ELSE LET P == SubsetsUpTo(S, n - 1) IN P \cup {p \cup {x} : p \in P, x \in S}

FileNode(path, readable, text) ==
  [path |-> path, type |-> "file", readable |-> readable, text |-> text]
DirNode(path) ==
  [path |-> path, type |-> "dir", readable |-> TRUE, text |-> YamlText(<<>>)]

\* A set of nodes is a tree when no path occurs twice and every node
\* beneath the first level lies in a directory of the set.
IsTree(N) ==
  /\ \A m, n \in N : m.path = n.path => m = n
  /\ \A n \in N : Len(n.path) > 1 =>
        \E d \in N : d.type = "dir" /\ d.path = SubSeq(n.path, 1, Len(n.path) - 1)

---------------------------------------------------------------------------
(* Calls of single functions: one call (annotate: up to two, the second on *)
(* the manifest the first one left) on arguments drawn from the sets       *)
(* below.                                                                  *)

AnnotateArgs ==
  {[manifest |-> MkManifest(k, md, sp), annotation |-> ph] :
     k \in {Absent, YStr("ConfigMap")},
     md \in MetadataOpts({Absent, YStr("a")}, AnnotationOpts),
     sp \in {Absent, OneContainer("X")},
     ph \in AllPhases}

SetImageTemplateArgs ==
  {[manifest |-> MkManifest(YStr("Deployment"), md, sp)] :
     md \in {Absent, MkMetadata(YStr("a"), Absent)},
     sp \in SpecOpts}

WriteManifestArgs ==
  {[manifest |-> MkManifest(k, md, Absent), directory |-> d, filename |-> f, force |-> b] :
     k \in AllKinds,
     md \in MetadataOpts({Absent, YNull, YStr("a")}, {Absent}),
     d \in {NoDir, EmptyDir, StaleDir},
     f \in {YNull, YStr("custom.yaml")},
     b \in BOOLEAN}

GetPkoManifestArgs == {[operator_name |-> n] : n \in OperatorNames \cup {"a", ""}}

\* The nodes the trees of get_manifest_files are made of.
TreeNodes ==
  {FileNode(<<n>>, TRUE, YamlText(<<>>)) : n \in {".yml", "a.txt", "a.yaml", "a.yml", "b.yaml"}}
  \cup {DirNode(<<n>>) : n \in {"sub", "a.yaml"}}
  \cup {FileNode(<<d, n>>, TRUE, YamlText(<<>>)) :
          d \in {"sub", "a.yaml"}, n \in {".yml", "a.txt", "a.yaml"}}

GetManifestFilesArgs ==
  {[tree |-> [exists |-> TRUE, nodes |-> N], recursive |-> r] :
     r \in BOOLEAN, N \in {T \in SubsetsUpTo(TreeNodes, MaxNodes) : IsTree(T)}}
  \cup {[tree |-> [exists |-> FALSE, nodes |-> {}], recursive |-> r] : r \in BOOLEAN}

\* The manifest strings of annotate_manifests.
UnitTexts ==
  {Doc(MkManifest(YStr(k), MkMetadata(YStr("a"), Absent), Absent)) : k \in RecognizedKinds}
  \cup {Doc(MkManifest(k, MkMetadata(YStr("a"), Absent), Absent)) :
          k \in {YStr("ConfigMap"), YStr("Namespace"), YStr("PackageManifest"), Absent}}
  \cup {Doc(MkManifest(YStr("Role"), md, Absent)) :
          md \in {Absent, YNull, MkMetadata(YStr("a"), YNull),
                  MkMetadata(YStr("a"), YMap([k \in {"existing"} |-> YStr("value")]))}}
  \cup {Doc(MkManifest(YStr("Deployment"), MkMetadata(YStr("a"), Absent), OneContainer("X"))),
        Doc(MkManifest(YStr("ConfigMap"), YNull, Absent)),
        Doc(MkManifest(YStr("Namespace"),
                       MkMetadata(YStr("a"), YMap([k \in {PKO_PHASE_ANNOTATION} |->
                                                     YStr(PHASE_NAMESPACE)])), Absent)),
        Doc(MkManifest(YStr("Role"),
                       MkMetadata(YStr("a"), YMap([k \in {PKO_PHASE_ANNOTATION} |->
                                                     YStr(PHASE_CLEANUP_RBAC)])), Absent)),
        GarbageText, YamlText(<<>>), YamlText(<<YSeq(<<YStr("a")>>)>>),
        YamlText(<<YMap(EmptyDict)>>),
        YamlText(<<YMap(MkManifest(YStr("Role"), MkMetadata(YStr("a"), Absent), Absent)),
                   YMap(MkManifest(YStr("Service"), MkMetadata(YStr("a"), Absent), Absent))>>)}

\* Lists in which a text that does not parse stands between two manifests,
\* the second of them with metadata null in some.
SkipLists ==
  {<<Doc(MkManifest(YStr(k1), MkMetadata(YStr("a"), Absent), Absent)),
     bad,
     last>> :
     k1 \in {"Role", "ConfigMap"},
     bad \in {GarbageText,
              YamlText(<<YMap(MkManifest(YStr("Role"), MkMetadata(YStr("a"), Absent), Absent)),
                         YMap(MkManifest(YStr("Service"), MkMetadata(YStr("a"), Absent), Absent))>>)},
     last \in {Doc(MkManifest(YStr(k2), MkMetadata(YStr("b"), Absent), Absent)) :
                 k2 \in {"CustomResourceDefinition", "Service", "ConfigMap"}}
               \cup {Doc(MkManifest(YStr("Role"), YNull, Absent))}}

AnnotateManifestsArgs ==
  {[strs |-> l] : l \in UNION {[1..n -> UnitTexts] : n \in 0..MaxDocs} \cup SkipLists}

\* The values the variables of a run hold while single functions are called.
\* main is not running: no environment is looked at, no process exits.
MainIdle ==
  /\ env = [used |-> FALSE]
  /\ status = "none"
  /\ aux = EmptyDict

mainVars == <<env, status, aux>>

RunIdle ==
  /\ pc = "idle"
  /\ src = [tree |-> [exists |-> FALSE, nodes |-> {}], recursive |-> TRUE]
  /\ opname = ""
  /\ manifests = <<>>
  /\ annotated = <<>>
  /\ widx = 1
  /\ out = NoDir
  /\ exc = "none"
  /\ wlog = <<>>
  /\ printed = <<>>
  /\ MainIdle

runVars == <<pc, src, opname, manifests, annotated, widx, out, exc, wlog, printed, env, status, aux>>

InitUnit ==
  /\ \/ fn = "annotate" /\ arg \in AnnotateArgs
     \/ fn = "set_image_template" /\ arg \in SetImageTemplateArgs
     \/ fn = "write_manifest" /\ arg \in WriteManifestArgs
     \/ fn = "get_pko_manifest" /\ arg \in GetPkoManifestArgs
     \/ fn = "get_manifest_files" /\ arg \in GetManifestFilesArgs
     \/ fn = "annotate_manifests" /\ arg \in AnnotateManifestsArgs
  /\ hist = <<>>
  /\ RunIdle

CallAnnotate ==
  /\ fn = "annotate"
  /\ Len(hist) < 2
  /\ hist' = Append(hist, annotate(IF hist = <<>> THEN arg.manifest ELSE hist[Len(hist)].manifest,
                                   arg.annotation))
  /\ UNCHANGED <<fn, arg, runVars>>

CallSetImageTemplate ==
  /\ fn = "set_image_template"
  /\ hist = <<>>
  /\ hist' = <<set_image_template(arg.manifest)>>
  /\ UNCHANGED <<fn, arg, runVars>>

CallWriteManifest ==
  /\ fn = "write_manifest"
  /\ hist = <<>>
  /\ hist' = <<write_manifest(arg.manifest, arg.directory, arg.filename, arg.force)>>
  /\ UNCHANGED <<fn, arg, runVars>>

CallGetPkoManifest ==
  /\ fn = "get_pko_manifest"
  /\ hist = <<>>
  /\ hist' = <<get_pko_manifest(arg.operator_name)>>
  /\ UNCHANGED <<fn, arg, runVars>>

CallGetManifestFiles ==
  /\ fn = "get_manifest_files"
  /\ hist = <<>>
  /\ hist' = <<get_manifest_files(arg.tree, arg.recursive)>>
  /\ UNCHANGED <<fn, arg, runVars>>

CallAnnotateManifests ==
  /\ fn = "annotate_manifests"
  /\ hist = <<>>
  /\ hist' = <<annotate_manifests(arg.strs)>>
  /\ UNCHANGED <<fn, arg, runVars>>

NextUnit ==
  \/ CallAnnotate
  \/ CallSetImageTemplate
  \/ CallWriteManifest
  \/ CallGetPkoManifest
  \/ CallGetManifestFiles
  \/ CallAnnotateManifests

SpecUnit == InitUnit /\ [][NextUnit]_vars

---------------------------------------------------------------------------
(* modify_manifests, lines 688-743: one run, in the steps of its body.     *)

\* What the files of the source tree of a run hold.
RunTexts ==
  {Doc(MkManifest(YStr("CustomResourceDefinition"), MkMetadata(YStr("a"), Absent), Absent)),
   Doc(MkManifest(YStr("ServiceAccount"), MkMetadata(YStr("a"), Absent), Absent)),
   Doc(MkManifest(YStr("Deployment"), MkMetadata(YStr("a"), Absent), OneContainer("X"))),
   Doc(MkManifest(YStr("ConfigMap"), MkMetadata(YStr("a"), Absent), Absent)),
   Doc(MkManifest(YStr("ConfigMap"), MkMetadata(YStr("a"), Absent), YMap(EmptyDict))),
   Doc(MkManifest(YStr("ConfigMap"),
                  MkMetadata(YStr("b"),
                             YMap([k \in {PKO_PHASE_ANNOTATION,
                                          PKO_COLLISION_PROTECTION_ANNOTATION} |->
                                     IF k = PKO_PHASE_ANNOTATION
                                       THEN YStr(PHASE_DEPLOY)
                                       ELSE YStr(PKO_COLLISION_PROTECTION_VALUE)])),
                  Absent)),
   Doc(MkManifest(YStr("ConfigMap"), YNull, Absent)),
   Doc(MkManifest(YStr("Role"), YNull, Absent)),
   Doc(MkManifest(YStr("ClusterPackage"), MkMetadata(YStr("a"), Absent), Absent)),
   Doc(MkManifest(Absent, MkMetadata(YStr("a"), Absent), Absent)),
   Doc(MkManifest(YStr("Cleanup-OLM"), MkMetadata(YStr("Job"), Absent), Absent)),
   GarbageText,
   YamlText(<<>>),
   YamlText(<<YMap(MkManifest(YStr("Role"), MkMetadata(YStr("a"), Absent), Absent)),
              YMap(MkManifest(YStr("Service"), MkMetadata(YStr("a"), Absent), Absent))>>)}

\* The places of the files of the source tree of a run.
RunPaths == {<<".yml">>, <<"a.yaml">>, <<"a.yml">>, <<"sub", "a.yaml">>}

RunFiles == {FileNode(p, r, t) : p \in RunPaths, r \in {TRUE}, t \in RunTexts}
            \cup {FileNode(p, FALSE, YamlText(<<>>)) : p \in RunPaths}

\* The trees of a run: at most MaxFiles files, in their directories.
RunTrees ==
  {F \cup {DirNode(<<f.path[1]>>) : f \in {g \in F : Len(g.path) > 1}} :
     F \in {G \in SubsetsUpTo(RunFiles, MaxFiles) : \A m, n \in G : m.path = n.path => m = n}}

InitRun(sources, dirs) ==
  /\ fn = "none"
  /\ arg = <<>>
  /\ hist = <<>>
  /\ pc = "load"
  /\ src \in sources
  /\ opname \in OperatorNames
  /\ manifests = <<>>
  /\ annotated = <<>>
  /\ widx = 1
  /\ out \in dirs
  /\ exc = "none"
  /\ wlog = <<>>
  /\ printed = <<>>
  /\ MainIdle

RunSources ==
  {[tree |-> [exists |-> TRUE, nodes |-> N], recursive |-> r] : N \in RunTrees, r \in BOOLEAN}

Init == InitRun(RunSources, {NoDir, StaleDir})

\* Lines 704-708.
Load ==
  /\ pc = "load"
  /\ LET l == load_manifests(src.tree, src.recursive)
     IN /\ manifests' = l.manifests
        /\ printed' = printed \o l.diag
                      \o (IF l.manifests = <<>> THEN <<"No YAML manifests found">> ELSE <<>>)
        /\ pc' = IF l.manifests = <<>> THEN "done" ELSE "annotate"
  /\ UNCHANGED <<env, status, aux, fn, arg, hist, src, opname, annotated, widx, out, exc, wlog>>

\* Line 713.
Annotate ==
  /\ pc = "annotate"
  /\ LET r == annotate_manifests(manifests)
     IN /\ annotated' = r.annotated
        /\ printed' = printed \o r.diag
        /\ exc' = r.exc
        /\ pc' = IF r.exc = "none" THEN "write" ELSE "raised"
  /\ widx' = 1
  /\ UNCHANGED <<env, status, aux, fn, arg, hist, src, opname, manifests, out, wlog>>

\* Lines 716-717, one pass of the loop.
WriteOne ==
  /\ pc = "write"
  /\ widx <= Len(annotated)
  /\ LET r == write_manifest(annotated[widx], out, YNull, FALSE)
     IN /\ out' = r.dir
        /\ exc' = r.exc
        /\ wlog' = wlog \o [i \in 1..Len(r.wrote) |->
                              [file |-> r.wrote[i], text |-> r.dir.files[r.wrote[i]]]]
        /\ pc' = IF r.exc = "none" THEN "write" ELSE "raised"
  /\ widx' = widx + 1
  /\ UNCHANGED <<env, status, aux, fn, arg, hist, src, opname, manifests, annotated, printed>>

\* Lines 721-722.
WriteDescriptor ==
  /\ pc = "write"
  /\ widx > Len(annotated)
  /\ LET r == write_manifest(get_pko_manifest(opname), out, YStr("manifest.yaml"), TRUE)
     IN /\ out' = r.dir
        /\ exc' = r.exc
        /\ wlog' = wlog \o [i \in 1..Len(r.wrote) |->
                              [file |-> r.wrote[i], text |-> r.dir.files[r.wrote[i]]]]
        /\ pc' = IF r.exc = "none" THEN "cleanup" ELSE "raised"
  /\ UNCHANGED <<env, status, aux, fn, arg, hist, src, opname, manifests, annotated, widx, printed>>

\* Mutant: the cleanup job file is opened for appending, so that a file
\* already there keeps its text in front of the new one.
WriteCleanup_append_mode ==
  /\ pc = "cleanup"
  /\ LET text == TemplateText("CLEANUP_JOB_TEMPLATE", opname)
         file == "Cleanup-OLM-Job.yaml"
         both == IF file \in DOMAIN out.files
                   THEN [t |-> "appended", parts |-> <<out.files[file], text>>]
                   ELSE text
     IN /\ out' = [out EXCEPT !.files = DictSet(out.files, file, both)]
        /\ wlog' = Append(wlog, [file |-> file, text |-> both])
  /\ pc' = "done"
  /\ UNCHANGED <<env, status, aux, fn, arg, hist, src, opname, manifests, annotated, widx, exc, printed>>

\* Lines 725-728.
WriteCleanup ==
  /\ pc = "cleanup"
  /\ LET text == TemplateText("CLEANUP_JOB_TEMPLATE", opname)
     IN /\ out' = [out EXCEPT !.files = DictSet(out.files, "Cleanup-OLM-Job.yaml", text)]
        /\ wlog' = Append(wlog, [file |-> "Cleanup-OLM-Job.yaml", text |-> text])
  /\ pc' = "done"
  /\ UNCHANGED <<env, status, aux, fn, arg, hist, src, opname, manifests, annotated, widx, exc, printed>>

\* A second call of modify_manifests with the arguments of the first, made
\* when the first is over: the source is as it was and the output
\* directory as the first call left it, which hist records.
Rerun ==
  /\ fn = "none"
  /\ pc \in {"done", "raised"}
  /\ hist = <<>>
  /\ hist' = <<out>>
  /\ pc' = "load"
  /\ manifests' = <<>>
  /\ annotated' = <<>>
  /\ widx' = 1
  /\ exc' = "none"
  /\ wlog' = <<>>
  /\ printed' = <<>>
  /\ UNCHANGED <<env, status, aux, fn, arg, src, opname, out>>

Next ==
  \/ Load
  \/ Annotate
  \/ WriteOne
  \/ WriteDescriptor
  \/ WriteCleanup
  \/ Rerun

Spec == Init /\ [][Next]_vars

---------------------------------------------------------------------------
(* Properties of the single functions, checked under SpecUnit.             *)

\* The call of function f has returned.
Called(f) == fn = f /\ hist # <<>>

\* manifest["metadata"]["annotations"][key] is the string value.
HasAnnotation(manifest, key, value) ==
  /\ "metadata" \in DOMAIN manifest
  /\ manifest["metadata"].t = "map"
  /\ "annotations" \in DOMAIN manifest["metadata"].v
  /\ manifest["metadata"].v["annotations"].t = "map"
  /\ key \in DOMAIN manifest["metadata"].v["annotations"].v
  /\ manifest["metadata"].v["annotations"].v[key] = YStr(value)

\* The manifest has the nested path spec.template.spec.containers.
HasContainersPath(manifest) ==
  /\ "spec" \in DOMAIN manifest
  /\ manifest["spec"].t = "map"
  /\ "template" \in DOMAIN manifest["spec"].v
  /\ manifest["spec"].v["template"].t = "map"
  /\ "spec" \in DOMAIN manifest["spec"].v["template"].v
  /\ manifest["spec"].v["template"].v["spec"].t = "map"
  /\ "containers" \in DOMAIN manifest["spec"].v["template"].v["spec"].v

ContainersOf(manifest) == manifest["spec"].v["template"].v["spec"].v["containers"]

\* The value at the path is a list of containers, each a mapping.
IsContainerList(y) == y.t = "seq" /\ \A i \in 1..Len(y.v) : y.v[i].t = "map"

\* C2: set_image_template never raises; on a manifest whose
\* spec.template.spec.containers is a list of N containers it returns the
\* manifest with the image of each of the N set to '{{ .config.image }}',
\* and a manifest that lacks the nested path is returned unchanged.
C2_SetImageTemplate ==
  Called("set_image_template") =>
    LET m == arg.manifest
        r == hist[1]
    IN /\ r.exc = "none"
       /\ ~HasContainersPath(m) => r.manifest = m
       /\ (HasContainersPath(m) /\ IsContainerList(ContainersOf(m))) =>
            /\ HasContainersPath(r.manifest)
            /\ IsContainerList(ContainersOf(r.manifest))
            /\ Len(ContainersOf(r.manifest).v) = Len(ContainersOf(m).v)
            /\ \A i \in 1..Len(ContainersOf(m).v) :
                 /\ "image" \in DOMAIN ContainersOf(r.manifest).v[i].v
                 /\ ContainersOf(r.manifest).v[i].v["image"] = YStr("{{ .config.image }}")

\* A Deployment with two containers, of images X and Y, has been rewritten.
C2_Witness ==
  /\ Called("set_image_template")
  /\ HasContainersPath(arg.manifest)
  /\ IsContainerList(ContainersOf(arg.manifest))
  /\ Len(ContainersOf(arg.manifest).v) = 2
  /\ DictGet(ContainersOf(arg.manifest).v[1].v, "image") = YStr("X")
  /\ DictGet(ContainersOf(arg.manifest).v[2].v, "image") = YStr("Y")
  /\ ContainersOf(hist[1].manifest).v[2].v["image"] = YStr("{{ .config.image }}")

\* The manifest's metadata is a mapping or is missing: the manifests of the
\* data model, as opposed to a document whose metadata is null, a string or
\* a list.
MetadataIsMapping(manifest) ==
  "metadata" \notin DOMAIN manifest \/ manifest["metadata"].t = "map"

\* The manifest's kind is absent or is one of the package-level kinds.
KindAbsentOrPackage(manifest) ==
  \/ "kind" \notin DOMAIN manifest
  \/ manifest["kind"] \in {YStr("ClusterPackage"), YStr("Package"), YStr("PackageManifest")}

\* What write_manifest does on force=true when it writes: the call returns,
\* the directory gains or replaces one name, which holds the manifest, and
\* every other file is as before.
WroteExactlyOne(r, old, manifest) ==
  /\ r.exc = "none"
  /\ Len(r.wrote) = 1
  /\ r.dir.exists
  /\ DOMAIN r.dir.files = DOMAIN old.files \cup {r.wrote[1]}
  /\ r.dir.files[r.wrote[1]] = YamlText(<<YMap(manifest)>>)
  /\ \A f \in DOMAIN old.files \ {r.wrote[1]} : r.dir.files[f] = old.files[f]

\* C3: for a manifest whose kind is absent or is ClusterPackage, Package or
\* PackageManifest, write_manifest with force=false leaves the target
\* directory as it was (no file written, none changed), and with force=true
\* it writes exactly one file: the directory gains or replaces one name,
\* which holds the manifest, and every other file is as before.
C3_SkipUnlessForced ==
  (Called("write_manifest") /\ KindAbsentOrPackage(arg.manifest)) =>
    /\ ~arg.force => (hist[1].dir = arg.directory /\ hist[1].wrote = <<>>)
    /\ arg.force => WroteExactlyOne(hist[1], arg.directory, arg.manifest)

\* The part of C3 that holds: force=false writes nothing for such a
\* manifest, whatever its metadata, and force=true writes exactly one file
\* when the manifest's metadata is a mapping or is missing; with metadata
\* null, a string or a list the forced call raises and writes nothing.
C3_ForcedWhenMetadataIsMapping ==
  (Called("write_manifest") /\ KindAbsentOrPackage(arg.manifest)) =>
    /\ ~arg.force => (hist[1].dir = arg.directory /\ hist[1].wrote = <<>>)
    /\ (arg.force /\ MetadataIsMapping(arg.manifest)) =>
         WroteExactlyOne(hist[1], arg.directory, arg.manifest)
    /\ (arg.force /\ ~MetadataIsMapping(arg.manifest)) =>
         /\ hist[1].exc = "AttributeError"
         /\ hist[1].wrote = <<>>
         /\ hist[1].dir = arg.directory

\* A ClusterPackage was written with force=true into a directory that did
\* not exist, which now holds one file.
C3_Witness ==
  /\ Called("write_manifest")
  /\ DictGet(arg.manifest, "kind") = YStr("ClusterPackage")
  /\ arg.force
  /\ arg.directory = NoDir
  /\ Cardinality(DOMAIN hist[1].dir.files) = 1

\* The name part of the default file name: metadata.name, "unknown" when
\* the manifest has none.
NameOf(manifest) ==
  IF "metadata" \in DOMAIN manifest /\ manifest["metadata"].t = "map"
       /\ "name" \in DOMAIN manifest["metadata"].v
    THEN manifest["metadata"].v["name"]
    ELSE YStr("unknown")

\* C4: when write_manifest writes a manifest, the file is named
\* <kind>-<name>.yaml.gotmpl for kind Deployment and <kind>-<name>.yaml for
\* every other kind if no filename is given, and has exactly the given name
\* otherwise, whatever the kind; the file holds the manifest.
C4_FileName ==
  (Called("write_manifest") /\ hist[1].wrote # <<>>) =>
    LET m == arg.manifest
        kind == DictGet(m, "kind")
        stem == PyStr(kind) \o "-" \o PyStr(NameOf(m))
        file == hist[1].wrote[1]
    IN /\ arg.filename = YNull =>
            file = (IF kind = YStr("Deployment") THEN stem \o ".yaml.gotmpl"
                                                 ELSE stem \o ".yaml")
       /\ arg.filename # YNull => file = arg.filename.v
       /\ file \in DOMAIN hist[1].dir.files
       /\ hist[1].dir.files[file] = YamlText(<<YMap(m)>>)

\* A Deployment named a was written without a filename.
C4_Witness ==
  /\ Called("write_manifest")
  /\ DictGet(arg.manifest, "kind") = YStr("Deployment")
  /\ NameOf(arg.manifest) = YStr("a")
  /\ arg.filename = YNull
  /\ hist[1].wrote = <<"Deployment-a.yaml.gotmpl">>

\* C7: annotate is idempotent: a second call with the same phase leaves the
\* manifest, and with it the metadata annotations, exactly as the first
\* call left it, and ends the way the first did.
C7_AnnotateIdempotent ==
  (fn = "annotate" /\ Len(hist) = 2) => hist[2] = hist[1]

\* annotate returned twice on a manifest that came with an annotation of
\* its own and a phase annotation of another value.
C7_Witness ==
  /\ fn = "annotate"
  /\ Len(hist) = 2
  /\ hist[1].exc = "none"
  /\ arg.annotation = PHASE_RBAC
  /\ HasAnnotation(arg.manifest, "existing", "value")
  /\ HasAnnotation(arg.manifest, PKO_PHASE_ANNOTATION, PHASE_CRDS)
  /\ HasAnnotation(hist[2].manifest, PKO_PHASE_ANNOTATION, PHASE_RBAC)

\* The dict d without the keys K.
Without(d, K) == [k \in (DOMAIN d) \ K |-> d[k]]

PkoKeys == {PKO_PHASE_ANNOTATION, PKO_COLLISION_PROTECTION_ANNOTATION}

\* The metadata dict and the annotations dict of a manifest, {} for one
\* that is missing or is not a mapping.
MetadataDict(manifest) ==
  IF "metadata" \in DOMAIN manifest /\ manifest["metadata"].t = "map"
    THEN manifest["metadata"].v ELSE EmptyDict
AnnotationsDict(metadata) ==
  IF "annotations" \in DOMAIN metadata /\ metadata["annotations"].t = "map"
    THEN metadata["annotations"].v ELSE EmptyDict

\* C8: annotate changes nothing but the two PKO keys under
\* metadata.annotations: every other key of the manifest, every other key
\* of its metadata and every annotation under another key is as before
\* (a call that raises leaves the manifest unchanged altogether).
C8_AnnotateFrame ==
  (fn = "annotate" /\ hist # <<>>) =>
    LET m == arg.manifest
        r == hist[1]
    IN /\ r.exc # "none" => r.manifest = m
       /\ r.exc = "none" =>
            /\ Without(r.manifest, {"metadata"}) = Without(m, {"metadata"})
            /\ "metadata" \in DOMAIN r.manifest
            /\ r.manifest["metadata"].t = "map"
            /\ Without(r.manifest["metadata"].v, {"annotations"})
                 = Without(MetadataDict(m), {"annotations"})
            /\ "annotations" \in DOMAIN r.manifest["metadata"].v
            /\ r.manifest["metadata"].v["annotations"].t = "map"
            /\ Without(r.manifest["metadata"].v["annotations"].v, PkoKeys)
                 = Without(AnnotationsDict(MetadataDict(m)), PkoKeys)

\* annotate returned on a manifest with a kind, a spec, a name and an
\* annotation of its own.
C8_Witness ==
  /\ fn = "annotate"
  /\ hist # <<>>
  /\ hist[1].exc = "none"
  /\ {"kind", "spec", "metadata"} \subseteq DOMAIN arg.manifest
  /\ NameOf(arg.manifest) = YStr("a")
  /\ HasAnnotation(arg.manifest, "existing", "value")
  /\ HasAnnotation(hist[1].manifest, "existing", "value")
  /\ HasAnnotation(hist[1].manifest, PKO_PHASE_ANNOTATION, arg.annotation)

\* The regular files of the tree whose extension is .yaml or .yml, among
\* the children of the root or, recursively, among all nodes beneath it.
FilesWithYamlExtension(tree, recursive) ==
  IF ~tree.exists THEN {}
  ELSE {n.path : n \in {m \in tree.nodes :
          /\ m.type = "file"
          /\ PathSuffix(m.path[Len(m.path)]) \in {".yaml", ".yml"}
          /\ recursive \/ Len(m.path) = 1}}

\* C9: get_manifest_files returns exactly the regular files whose extension
\* is .yaml or .yml, directly under the root in non-recursive mode and
\* anywhere beneath it in recursive mode, and nothing for a root that does
\* not exist.
C9_ManifestFilesExact ==
  Called("get_manifest_files") =>
    hist[1] = FilesWithYamlExtension(arg.tree, arg.recursive)

\* The part of C9 that holds: the non-recursive mode, the root that does
\* not exist, and in recursive mode every file with one of the extensions.
C9_NonRecursiveExact ==
  Called("get_manifest_files") =>
    /\ (~arg.recursive \/ ~arg.tree.exists) =>
         hist[1] = FilesWithYamlExtension(arg.tree, arg.recursive)
    /\ FilesWithYamlExtension(arg.tree, arg.recursive) \subseteq hist[1]
    /\ \A p \in hist[1] : NodeAt(arg.tree, p).type = "file"

\* The phase the table of C1 gives a kind.
TablePhase(kind) ==
  CASE kind = YStr("CustomResourceDefinition") -> "crds"
    [] kind \in {YStr("ClusterRole"), YStr("ClusterRoleBinding"), YStr("Role"),
                 YStr("RoleBinding"), YStr("ServiceAccount")} -> "rbac"
    [] kind \in {YStr("Service"), YStr("ServiceMonitor"), YStr("Deployment")} -> "deploy"
    [] OTHER -> ""

\* The manifest string parses to a mapping.
ParsesToMapping(text) == safe_load(text).exc = "none" /\ safe_load(text).val.t = "map"

\* The manifest string parses to a mapping that annotate_manifests keeps.
Kept(text) == ParsesToMapping(text) /\ Truthy(safe_load(text).val)

\* The place in the list returned of the document of the i-th string.
PlaceOf(strs, i) == Cardinality({k \in 1..i : Kept(strs[k])})

\* The documents of the kinds of the table carry the phase of their kind
\* and the collision protection in the list r returned for strs.
TableHolds(strs, r) ==
  \A i \in 1..Len(strs) :
    (ParsesToMapping(strs[i]) /\ TablePhase(DictGet(safe_load(strs[i]).val.v, "kind")) # "") =>
      /\ r.exc = "none"
      /\ PlaceOf(strs, i) <= Len(r.annotated)
      /\ LET a == r.annotated[PlaceOf(strs, i)]
             d == safe_load(strs[i]).val.v
         IN /\ DictGet(a, "kind") = DictGet(d, "kind")
            /\ HasAnnotation(a, "package-operator.run/phase", TablePhase(DictGet(d, "kind")))
            /\ HasAnnotation(a, "package-operator.run/collision-protection", "IfNoController")

\* C1: for every input document that parses to a mapping,
\* annotate_manifests sets the phase annotation from the document's kind
\* (CustomResourceDefinition: crds; ClusterRole, ClusterRoleBinding, Role,
\* RoleBinding, ServiceAccount: rbac; Service, ServiceMonitor, Deployment:
\* deploy) and the collision protection IfNoController.
C1_PhaseByKind ==
  Called("annotate_manifests") => TableHolds(arg.strs, hist[1])

\* The part of C1 that holds: the table, on every call that returns.
C1_PhaseByKindOnReturn ==
  (Called("annotate_manifests") /\ hist[1].exc = "none") => TableHolds(arg.strs, hist[1])

---------------------------------------------------------------------------
(* Properties of a run of modify_manifests, checked under Spec.            *)

\* The run is over: it returned or an exception left it.
RunOver == pc \in {"done", "raised"}

\* The names of the phases a descriptor text lists, in order.
PhaseNames(text) ==
  LET phases == text.docs[1].v["spec"].v["phases"].v
  IN [i \in 1..Len(phases) |-> phases[i].v["name"]]

\* C5: the descriptor get_pko_manifest returns lists exactly the six phases
\* crds, namespace, rbac, deploy, cleanup-rbac, cleanup-deploy, in this
\* order, for every operator name and whatever manifests the source held:
\* every manifest.yaml a run writes holds this list.
C5_SixPhases ==
  \A i \in 1..Len(wlog) :
    wlog[i].file = "manifest.yaml" =>
      PhaseNames(wlog[i].text)
        = <<YStr("crds"), YStr("namespace"), YStr("rbac"), YStr("deploy"),
            YStr("cleanup-rbac"), YStr("cleanup-deploy")>>

\* A run whose source held no manifest of a recognized kind has written
\* the descriptor of the operator.
C5_Witness ==
  /\ pc = "done"
  /\ annotated # <<>>
  /\ \A j \in 1..Len(annotated) : KindPhase(DictGet(annotated[j], "kind")) = ""
  /\ \E i \in 1..Len(wlog) :
       /\ wlog[i].file = "manifest.yaml"
       /\ Len(PhaseNames(wlog[i].text)) = 6
       /\ wlog[i].text.docs[1].v["metadata"].v["name"] = YStr(opname)

\* C10: a manifest of the source whose kind is none of the nine recognized
\* ones is in the list annotate_manifests returns, unchanged, and is
\* written by the run, under <kind>-<name>.yaml, unless its kind is absent
\* or is ClusterPackage, Package or PackageManifest.
C10_UnrecognizedPassedAndWritten ==
  RunOver =>
    \A i \in 1..Len(manifests) :
      (Kept(manifests[i])
         /\ MetadataIsMapping(safe_load(manifests[i]).val.v)
         /\ TablePhase(DictGet(safe_load(manifests[i]).val.v, "kind")) = "") =>
        LET m == safe_load(manifests[i]).val.v
        IN /\ \E j \in 1..Len(annotated) : annotated[j] = m
           /\ (~KindAbsentOrPackage(m) /\ DictGet(m, "kind") # YNull) =>
                \E k \in 1..Len(wlog) :
                  /\ wlog[k].file = PyStr(DictGet(m, "kind")) \o "-" \o PyStr(NameOf(m)) \o ".yaml"
                  /\ wlog[k].text = YamlText(<<YMap(m)>>)

\* The part of C10 that holds: the same, of the runs that return.
C10_OnReturn ==
  (pc = "done" /\ exc = "none") => C10_UnrecognizedPassedAndWritten

---------------------------------------------------------------------------
(* The end-to-end scenario: a source of three files, which hold a          *)
(* CustomResourceDefinition, a ServiceAccount and a Deployment of one      *)
(* container, each where the search finds it; lines 689-733 of the tests.  *)

E2ENames == {Absent, YStr("a"), YStr("b")}
E2EImages == {"X", "Y"}
E2EPaths == {<<"a.yaml">>, <<"a.yml">>, <<"b.yaml">>, <<"sub", "a.yaml">>}

\* The source of a scenario: the places p, names n and image x of the
\* three files, searched with the flag r.
E2ESource(p, n, x, r) ==
  [tree |-> [exists |-> TRUE,
             nodes |-> {FileNode(p[1], TRUE,
                          Doc(MkManifest(YStr("CustomResourceDefinition"), MkMetadata(n[1], Absent), Absent))),
                        FileNode(p[2], TRUE,
                          Doc(MkManifest(YStr("ServiceAccount"), MkMetadata(n[2], Absent), Absent))),
                        FileNode(p[3], TRUE,
                          Doc(MkManifest(YStr("Deployment"), MkMetadata(n[3], Absent), OneContainer(x))))}
                       \cup {DirNode(<<p[i][1]>>) : i \in {j \in 1..3 : Len(p[j]) > 1}}],
   recursive |-> r]

E2ESources ==
  {E2ESource(c.p, c.n, c.x, c.r) :
     c \in {d \in [p : E2EPaths \X E2EPaths \X E2EPaths,
                   n : E2ENames \X E2ENames \X E2ENames,
                   x : E2EImages,
                   r : BOOLEAN] :
              /\ d.p[1] # d.p[2] /\ d.p[1] # d.p[3] /\ d.p[2] # d.p[3]
              /\ d.r \/ \A i \in 1..3 : Len(d.p[i]) = 1}}

InitE2E == InitRun(E2ESources, {NoDir, EmptyDir, StaleDir})

SpecE2E == InitE2E /\ [][Next]_vars

\* The file f of the directory holds one document, a mapping of the kind.
FileHolds(dir, f, kind) ==
  /\ f \in DOMAIN dir.files
  /\ dir.files[f].t = "yaml"
  /\ Len(dir.files[f].docs) = 1
  /\ dir.files[f].docs[1].t = "map"
  /\ DictGet(dir.files[f].docs[1].v, "kind") = YStr(kind)

\* The manifest a file of one document holds.
Held(dir, f) == dir.files[f].docs[1].v

\* The name write_manifest gives the file of a manifest by default.
DefaultName(manifest, ext) ==
  PyStr(DictGet(manifest, "kind")) \o "-" \o PyStr(NameOf(manifest)) \o ext

\* C6: a run on a source of one CustomResourceDefinition, one
\* ServiceAccount and one Deployment with a single container never raises
\* and, when it is over, has written five files, which the output
\* directory holds: one for each of the three resources, manifest.yaml and
\* the cleanup job template; the file of the Deployment is named
\* <kind>-<name>.yaml.gotmpl and its container's image is
\* '{{ .config.image }}', the file of the CustomResourceDefinition carries
\* the phase crds; the directory holds nothing else but what it held
\* before.
C6_EndToEnd ==
  /\ pc # "raised"
  /\ pc = "done" =>
       /\ exc = "none"
       /\ Len(wlog) = 5
       /\ Cardinality({wlog[i].file : i \in 1..Len(wlog)}) = 5
       /\ \A i \in 1..Len(wlog) :
            wlog[i].file \in DOMAIN out.files /\ out.files[wlog[i].file] = wlog[i].text
       /\ \A f \in DOMAIN out.files :
            \/ \E i \in 1..Len(wlog) : wlog[i].file = f
            \/ f \in DOMAIN StaleDir.files /\ out.files[f] = StaleDir.files[f]
       /\ \E f \in DOMAIN out.files :
            /\ FileHolds(out, f, "CustomResourceDefinition")
            /\ f = DefaultName(Held(out, f), ".yaml")
            /\ HasAnnotation(Held(out, f), "package-operator.run/phase", "crds")
       /\ \E f \in DOMAIN out.files :
            /\ FileHolds(out, f, "ServiceAccount")
            /\ f = DefaultName(Held(out, f), ".yaml")
       /\ \E f \in DOMAIN out.files :
            /\ FileHolds(out, f, "Deployment")
            /\ f = DefaultName(Held(out, f), ".yaml.gotmpl")
            /\ HasContainersPath(Held(out, f))
            /\ ContainersOf(Held(out, f)).t = "seq"
            /\ Len(ContainersOf(Held(out, f)).v) = 1
            /\ ContainersOf(Held(out, f)).v[1].v["image"] = YStr("{{ .config.image }}")
       /\ FileHolds(out, "manifest.yaml", "PackageManifest")
       /\ "Cleanup-OLM-Job.yaml" \in DOMAIN out.files
       /\ out.files["Cleanup-OLM-Job.yaml"] = TemplateText("CLEANUP_JOB_TEMPLATE", opname)

\* A run on files directly under the root, the Deployment's image X, has
\* ended with five files in a directory that did not hold any.
C6_Witness ==
  /\ pc = "done"
  /\ ~src.recursive
  /\ \E n \in src.tree.nodes :
       /\ n.text.docs # <<>>
       /\ DictGet(n.text.docs[1].v, "kind") = YStr("Deployment")
       /\ ContainersOf(n.text.docs[1].v).v[1].v["image"] = YStr("X")
  /\ Cardinality(DOMAIN out.files) = 5
  /\ "Deployment-a.yaml.gotmpl" \in DOMAIN out.files
  /\ "CustomResourceDefinition-unknown.yaml" \in DOMAIN out.files

---------------------------------------------------------------------------
(* Further properties of a run of modify_manifests, checked under Spec.    *)

\* The i-th write of the run is a file of a resource: a file that is not
\* the descriptor or the cleanup job template.
IsResourceWrite(i) ==
  /\ wlog[i].file # "manifest.yaml"
  /\ wlog[i].text.t = "yaml"
  /\ Len(wlog[i].text.docs) = 1
  /\ wlog[i].text.docs[1].t = "map"

\* The manifest written by the i-th write.
Written(i) == wlog[i].text.docs[1].v

\* The manifest carries a phase marker and the collision protection.
HasAnnotationSet(manifest) ==
  /\ \E ph \in {"crds", "namespace", "rbac", "deploy", "cleanup-rbac", "cleanup-deploy"} :
       HasAnnotation(manifest, "package-operator.run/phase", ph)
  /\ HasAnnotation(manifest, "package-operator.run/collision-protection", "IfNoController")

\* C11 as stated: every manifest a run writes to the output directory
\* carries a phase marker and the collision protection marker.
C11_EveryWrittenAnnotated ==
  \A i \in 1..Len(wlog) : IsResourceWrite(i) => HasAnnotationSet(Written(i))

\* The manifest written by the i-th write is a document of the source as
\* it was read.
WrittenAsRead(i) ==
  \E j \in 1..Len(manifests) :
    Kept(manifests[j]) /\ safe_load(manifests[j]).val.v = Written(i)

\* C11, amended: every manifest of one of the nine recognized kinds that a
\* run writes to the output directory carries a phase marker and the
\* collision protection marker; a manifest of any other kind that a run
\* writes is written as it was read, so it carries the markers only if the
\* source document did.
C11_RecognizedWrittenAnnotated ==
  \A i \in 1..Len(wlog) :
    IsResourceWrite(i) =>
      IF TablePhase(DictGet(Written(i), "kind")) # ""
        THEN HasAnnotationSet(Written(i))
        ELSE WrittenAsRead(i)

\* A run has written a ServiceAccount with both markers and a ConfigMap
\* with neither.
C11_Witness ==
  /\ pc = "done"
  /\ \E i \in 1..Len(wlog) :
       /\ IsResourceWrite(i)
       /\ DictGet(Written(i), "kind") = YStr("ServiceAccount")
       /\ HasAnnotation(Written(i), "package-operator.run/phase", "rbac")
       /\ HasAnnotation(Written(i), "package-operator.run/collision-protection", "IfNoController")
  /\ \E i \in 1..Len(wlog) :
       /\ IsResourceWrite(i)
       /\ DictGet(Written(i), "kind") = YStr("ConfigMap")
       /\ ~HasAnnotationSet(Written(i))

\* A run has written a ConfigMap that came with both markers, with them.
C11_MarkedConfigMapWritten ==
  \E i \in 1..Len(wlog) :
    /\ IsResourceWrite(i)
    /\ DictGet(Written(i), "kind") = YStr("ConfigMap")
    /\ HasAnnotationSet(Written(i))
    /\ WrittenAsRead(i)

\* The second run of modify_manifests is over.
SecondRunOver == fn = "none" /\ RunOver /\ hist # <<>>

\* C15: a second run of modify_manifests on the same source and output
\* directory, made after the first is over, leaves the output directory
\* with the files and the file contents the first run left, and ends the
\* way the first did; the files the first run wrote are written again
\* under the same names.
C15_RerunIdempotent ==
  SecondRunOver =>
    /\ out = hist[1]
    /\ \A i \in 1..Len(wlog) :
         wlog[i].file \in DOMAIN hist[1].files

\* A second run is over that has written a Deployment, a ConfigMap, the
\* descriptor and the cleanup job template over those of the first.
C15_Witness ==
  /\ SecondRunOver
  /\ pc = "done"
  /\ Len(wlog) >= 4
  /\ {"Deployment-a.yaml.gotmpl", "ConfigMap-a.yaml", "manifest.yaml", "Cleanup-OLM-Job.yaml"}
       \subseteq {wlog[i].file : i \in 1..Len(wlog)}
  /\ out = hist[1]

\* The writes of the run that wrote the descriptor file.
DescriptorWrites == {i \in 1..Len(wlog) : wlog[i].file = "manifest.yaml"}

\* C12: when a run of modify_manifests is over it has written manifest.yaml
\* exactly once, and the file holds what that write put there: the
\* descriptor of the operator.
C12_DescriptorOncePerRun ==
  RunOver =>
    /\ Cardinality(DescriptorWrites) = 1
    /\ "manifest.yaml" \in DOMAIN out.files
    /\ out.files["manifest.yaml"] = YamlText(<<YMap(get_pko_manifest(opname))>>)

\* The part of C12 that holds: no run writes manifest.yaml twice, no later
\* step changes what was written, and a run that read a file and returned
\* has written it.
C12_AtMostOnceAndKept ==
  /\ Cardinality(DescriptorWrites) <= 1
  /\ \A i \in DescriptorWrites :
       /\ "manifest.yaml" \in DOMAIN out.files
       /\ out.files["manifest.yaml"] = wlog[i].text
       /\ wlog[i].text = YamlText(<<YMap(get_pko_manifest(opname))>>)
  /\ (pc = "done" /\ manifests # <<>>) => Cardinality(DescriptorWrites) = 1

\* The writes of the run that wrote the file of a resource.
ResourceWrites == {i \in 1..Len(wlog) : IsResourceWrite(i)}

\* C13: two distinct manifests that a run retains and writes never go to
\* the same output file, so that the run writes as many files of resources
\* as it wrote manifests.
C13_OneFilePerManifest ==
  /\ \A i, j \in ResourceWrites :
       wlog[i].text # wlog[j].text => wlog[i].file # wlog[j].file
  /\ pc = "done" =>
       Cardinality({wlog[i].file : i \in ResourceWrites})
         = Cardinality({wlog[i].text : i \in ResourceWrites})

\* The number of YAML documents in the texts from the i-th on.
RECURSIVE DocumentCount(_, _)
DocumentCount(texts, i) ==
  IF i > Len(texts) THEN 0
  ELSE (IF texts[i].t = "yaml" THEN Len(texts[i].docs) ELSE 0) + DocumentCount(texts, i + 1)

\* annotate_manifests has returned in this run.
AnnotateReturned == pc \in {"write", "cleanup", "done"} /\ manifests # <<>>

\* C14: the list annotate_manifests returns in a run holds one manifest for
\* every YAML document of the source files read: a file of k documents
\* contributes k manifests.
C14_EveryDocumentAnnotated ==
  AnnotateReturned => Len(annotated) = DocumentCount(manifests, 1)

\* The part of C14 that holds: a file that holds one document, a non-empty
\* mapping, contributes that one manifest, and no file contributes more
\* manifests than it holds documents.
C14_SingleDocumentFiles ==
  AnnotateReturned =>
    /\ Len(annotated) <= DocumentCount(manifests, 1)
    /\ Len(annotated) = Cardinality({i \in 1..Len(manifests) : Kept(manifests[i])})

---------------------------------------------------------------------------
(* Error handling of annotate_manifests, checked under SpecUnit.           *)

\* The manifest string parses to a valid manifest: a non-empty mapping
\* whose metadata and metadata.annotations are mappings where present.
ValidManifest(text) ==
  /\ Kept(text)
  /\ LET m == safe_load(text).val.v
     IN /\ MetadataIsMapping(m)
        /\ "metadata" \in DOMAIN m =>
             \/ "annotations" \notin DOMAIN m["metadata"].v
             \/ m["metadata"].v["annotations"].t = "map"

\* The manifest string fails to parse as YAML.
FailsToParse(text) == safe_load(text).exc # "none"

\* The number of lines of the diagnostics that are equal to line.
CountOf(diag, line) == Cardinality({i \in 1..Len(diag) : diag[i] = line})

\* What annotate_manifests returned in r holds the documents of the strings
\* of idx, in the order of the list, each processed as its kind demands:
\* phase and collision protection for the recognized kinds, unchanged
\* otherwise.
ReturnedInOrder(strs, r, idx) ==
  /\ r.exc = "none"
  /\ Len(r.annotated) = Cardinality(idx)
  /\ TableHolds(strs, r)
  /\ \A i \in idx :
       LET d == safe_load(strs[i]).val.v
           a == r.annotated[PlaceOf(strs, i)]
       IN /\ Without(a, {"metadata", "spec"}) = Without(d, {"metadata", "spec"})
          /\ NameOf(a) = NameOf(d)
          /\ TablePhase(DictGet(d, "kind")) = "" => a = d

\* C16: annotate_manifests, on a list in which a string fails to parse as
\* YAML, skips each such string with one diagnostic and goes on: every
\* manifest of the list that parses, a non-empty mapping, is returned,
\* those before and those after the failing string, in the order of the
\* list, each processed as its kind demands.
C16_ParseErrorSkipped ==
  (Called("annotate_manifests")
     /\ \E i \in 1..Len(arg.strs) : FailsToParse(arg.strs[i])) =>
    /\ CountOf(hist[1].diag, "Error parsing manifest")
         = Cardinality({i \in 1..Len(arg.strs) : FailsToParse(arg.strs[i])})
    /\ ReturnedInOrder(arg.strs, hist[1], {i \in 1..Len(arg.strs) : Kept(arg.strs[i])})

\* The part of C16 that holds: on a list made of strings that fail to parse
\* and of manifests whose metadata and annotations are mappings where
\* present, each failing string is skipped with one diagnostic and the
\* manifests are returned in the order of the list, processed by kind.
C16_SkippedAmongWellFormed ==
  (Called("annotate_manifests")
     /\ \A i \in 1..Len(arg.strs) : FailsToParse(arg.strs[i]) \/ ValidManifest(arg.strs[i])) =>
    /\ CountOf(hist[1].diag, "Error parsing manifest")
         = Cardinality({i \in 1..Len(arg.strs) : FailsToParse(arg.strs[i])})
    /\ ReturnedInOrder(arg.strs, hist[1], {i \in 1..Len(arg.strs) : ValidManifest(arg.strs[i])})

\* annotate_manifests has returned a Role and a Service, in this order, on
\* a list in which a string that does not parse stands between them.
C16_Witness ==
  /\ Called("annotate_manifests")
  /\ Len(arg.strs) = 3
  /\ ValidManifest(arg.strs[1])
  /\ arg.strs[2] = GarbageText
  /\ ValidManifest(arg.strs[3])
  /\ hist[1].exc = "none"
  /\ Len(hist[1].annotated) = 2
  /\ DictGet(hist[1].annotated[1], "kind") = YStr("Role")
  /\ DictGet(hist[1].annotated[2], "kind") = YStr("Service")
  /\ HasAnnotation(hist[1].annotated[2], "package-operator.run/phase", "deploy")
  /\ hist[1].diag = <<"Error parsing manifest">>

\* The manifest string holds an item with a problem: it fails to parse, it
\* is an empty or a non-mapping document, or it is a Deployment without
\* the nested container path.
ProblemItem(text) ==
  \/ FailsToParse(text)
  \/ ~Kept(text)
  \/ /\ ValidManifest(text)
     /\ DictGet(safe_load(text).val.v, "kind") = YStr("Deployment")
     /\ ~HasContainersPath(safe_load(text).val.v)

\* C18: every item annotate_manifests skips or passes through unmodified
\* because of a problem causes a diagnostic line: the call prints at least
\* as many lines about problems as the list has items with one ("Unhandled
\* type" is the line of a manifest of another kind, not of a problem).
C18_NoSilentSkip ==
  (Called("annotate_manifests") /\ hist[1].exc = "none") =>
    Cardinality({i \in 1..Len(arg.strs) : ProblemItem(arg.strs[i])})
      <= Len(hist[1].diag) - CountOf(hist[1].diag, "Unhandled type")

\* The part of C18 that holds: a string that fails to parse causes a line.
C18_ParseFailureDiagnosed ==
  (Called("annotate_manifests") /\ hist[1].exc = "none") =>
    Cardinality({i \in 1..Len(arg.strs) : FailsToParse(arg.strs[i])})
      = CountOf(hist[1].diag, "Error parsing manifest")

---------------------------------------------------------------------------
(* Error handling of a run of modify_manifests, checked under Spec.        *)

\* The manifest of the i-th file read, a valid one.
Loaded(i) == safe_load(manifests[i]).val.v

\* C17: a failure confined to one item does not abort the run: a run that
\* read files ends by returning, with the descriptor written, and every
\* valid manifest among the files read is in the list annotated and, if its
\* kind is present and not a package kind, written under its name.
C17_ItemFailureConfined ==
  (RunOver /\ manifests # <<>>) =>
    /\ pc = "done"
    /\ exc = "none"
    /\ DescriptorWrites # {}
    /\ \A i \in 1..Len(manifests) :
         ValidManifest(manifests[i]) =>
           /\ \E j \in 1..Len(annotated) :
                /\ DictGet(annotated[j], "kind") = DictGet(Loaded(i), "kind")
                /\ NameOf(annotated[j]) = NameOf(Loaded(i))
           /\ (~KindAbsentOrPackage(Loaded(i)) /\ DictGet(Loaded(i), "kind") # YNull) =>
                \E k \in ResourceWrites :
                  /\ DictGet(Written(k), "kind") = DictGet(Loaded(i), "kind")
                  /\ NameOf(Written(k)) = NameOf(Loaded(i))

\* The part of C17 that holds: the same, of the runs in which every
\* document that is a non-empty mapping is a valid manifest; a file that
\* cannot be read or does not parse is skipped there.
C17_ConfinedWhenMetadataWellFormed ==
  (\A i \in 1..Len(manifests) : Kept(manifests[i]) => ValidManifest(manifests[i])) =>
    C17_ItemFailureConfined

---------------------------------------------------------------------------
(* The git repository of the working directory, as the git commands of     *)
(* lines 243-402 report it.  A remote URL is kept in its parts:            *)
(*   https: https://<host>/<org>/<repo>[.git]                              *)
(*   http:  http://<host>/<org>/<repo>[.git]                               *)
(*   ssh:   git@<host>:<org>/<repo>[.git]                                  *)
(*   sshurl: ssh://git@<host>/<org>/<repo>[.git]                           *)
(*   path:  /srv/git/<org>/<repo>[.git]                                    *)

RemoteUrl(form, host, org, repo, dotgit) ==
  [form |-> form, host |-> host, org |-> org, repo |-> repo, dotgit |-> dotgit]

\* The URL as the string git prints.
UrlString(u) ==
  (CASE u.form = "https" -> "https://" \o u.host \o "/"
     [] u.form = "http" -> "http://" \o u.host \o "/"
     [] u.form = "ssh" -> "git@" \o u.host \o ":"
     [] u.form = "sshurl" -> "ssh://git@" \o u.host \o "/"
     [] u.form = "path" -> "/srv/git/")
  \o u.org \o "/" \o u.repo \o (IF u.dotgit THEN ".git" ELSE "")

\* The names of hosts, organisations and repositories in which the word
\* openshift occurs.
OpenshiftWords == {"openshift", "openshift-priv", "github.openshift.example"}

\* 'openshift' in remote
ContainsOpenshift(u) ==
  u.host \in OpenshiftWords \/ u.org \in OpenshiftWords \/ u.repo \in OpenshiftWords

\* list(dict.fromkeys(remotes)): the list without the later occurrences of
\* an element.
RECURSIVE Dedup(_, _)
Dedup(list, i) ==
  IF i > Len(list) THEN <<>>
  ELSE LET rest == Dedup(list, i + 1)
       IN IF \E j \in 1..(i - 1) : list[j] = list[i]
            THEN rest
            ELSE <<list[i]>> \o rest

\* get_remotes, lines 243-276.
get_remotes(git) ==
  IF ~git.in_git
    \* lines 253-256
    THEN [exc |-> "RuntimeError", msg |-> "Not in a git repository", val |-> <<>>]
  ELSE IF ~git.remote_ok
    \* lines 273-276
    THEN [exc |-> "RuntimeError", msg |-> "Could not get git remotes", val |-> <<>>]
    \* lines 258-272
    ELSE [exc |-> "none", msg |-> "", val |-> Dedup(git.remotes, 1)]

\* The loop of lines 282-296 from the i-th remote on.
RECURSIVE GithubUrlFrom(_, _)
GithubUrlFrom(remotes, i) ==
  IF i > Len(remotes)
    \* lines 298-301
    THEN [exc |-> "RuntimeError", msg |-> "Could not find an 'openshift' git remote", val |-> ""]
  ELSE LET u == remotes[i] IN
    IF ~ContainsOpenshift(u) THEN GithubUrlFrom(remotes, i + 1)
    ELSE IF u.form \in {"https", "http"}
      \* lines 286-287: remote.startswith('http'), remote.removesuffix(".git")
      THEN [exc |-> "none", msg |-> "", val |-> UrlString([u EXCEPT !.dotgit = FALSE])]
    ELSE IF u.form = "ssh"
      \* lines 288-292: what follows the colon of git@host:org/repo
      THEN [exc |-> "none", msg |-> "",
            val |-> "https://github.com/" \o u.org \o "/" \o u.repo]
    ELSE IF u.form = "sshurl"
      \* lines 288-292: remote.split(":")[1] of ssh://git@host/org/repo is
      \* what follows the colon of the scheme
      THEN [exc |-> "none", msg |-> "",
            val |-> "https://github.com/" \o "//git@" \o u.host \o "/" \o u.org
                    \o "/" \o u.repo]
      \* lines 293-296
      ELSE [exc |-> "RuntimeError", msg |-> "Cannot parse git remote URL format", val |-> ""]

\* get_github_url, lines 279-301.
get_github_url(git) ==
  LET r == get_remotes(git)
  IN IF r.exc # "none" THEN [exc |-> r.exc, msg |-> r.msg, val |-> ""]
     ELSE GithubUrlFrom(r.val, 1)

\* get_operator_name, lines 304-328: the name and the lines printed.
get_operator_name(git) ==
  LET r == get_remotes(git)
  IN IF r.exc # "none"
       \* lines 326-328
       THEN [name |-> "unknown-operator",
             diag |-> <<"Warning: Could not extract operator name">>]
     ELSE IF r.val = <<>>
       \* lines 308-309
       THEN [name |-> "unknown-operator", diag |-> <<>>]
       \* lines 311-322: every form of URL holds a "/"
       ELSE [name |-> r.val[1].repo, diag |-> <<>>]

\* result.stdout.strip().split("/")[-1], line 366: the last of the parts of
\* refs/remotes/origin/<name> that the slashes separate. ref is the
\* sequence of the parts of <name>.
LastPart(ref) == ref[Len(ref)]

\* line.strip().lstrip("* "), line 390: a line of `git branch --list` is a
\* two-character mark ("* " for the current branch, "+ " for a branch
\* checked out in another worktree, "  " otherwise) and the name; strip and
\* lstrip take away the blanks and the asterisk and leave the plus sign
\* and the blank after it.
BranchOfLine(line) == IF line.mark = "+" THEN "+ " \o line.name ELSE line.name

\* get_default_branch, lines 331-402. head_ref is <<>> when
\* `git symbolic-ref refs/remotes/origin/HEAD` fails (check=False);
\* current_ok and list_ok are FALSE when `git branch --show-current` and
\* `git branch --list` fail (check=True).
get_default_branch(git) ==
  LET fallback == [exc |-> "none", msg |-> "", val |-> "main",
                   diag |-> <<"Warning: Error detecting default branch",
                              "Defaulting to 'main'">>]
      branches == {BranchOfLine(l) : l \in git.lines}
  IN IF ~git.in_git
       \* lines 342-353
       THEN [exc |-> "RuntimeError", msg |-> "Not in a git repository", val |-> "", diag |-> <<>>]
     \* lines 364-368
     ELSE IF git.head_ref # <<>> /\ LastPart(git.head_ref) \in {"main", "master"}
       THEN [exc |-> "none", msg |-> "", val |-> LastPart(git.head_ref), diag |-> <<>>]
     \* lines 371-376, 399-402
     ELSE IF ~git.current_ok
       THEN fallback
     \* lines 378-380
     ELSE IF git.current \in {"main", "master"}
       THEN [exc |-> "none", msg |-> "", val |-> git.current, diag |-> <<>>]
     \* lines 383-388, 399-402
     ELSE IF ~git.list_ok
       THEN fallback
     \* lines 390-394
     ELSE IF "main" \in branches
       THEN [exc |-> "none", msg |-> "", val |-> "main", diag |-> <<>>]
     ELSE IF "master" \in branches
       THEN [exc |-> "none", msg |-> "", val |-> "master", diag |-> <<>>]
     \* lines 396-398
     ELSE [exc |-> "none", msg |-> "", val |-> "main",
           diag |-> <<"Warning: Could not determine default branch, defaulting to 'main'">>]

---------------------------------------------------------------------------
(* The auxiliary generators, lines 606-685: the exception raised, the      *)
(* files written and the lines printed.                                    *)

NoFiles == EmptyDict

\* write_pko_dockerfile, lines 606-622.
write_pko_dockerfile(e) ==
  LET on == get_operator_name(e.git)
      up == get_github_url(e.git)
  IN IF up.exc # "none"
       THEN [exc |-> up.exc, msg |-> up.msg, files |-> NoFiles, diag |-> on.diag]
     ELSE IF ~e.build
       THEN [exc |-> "RuntimeError", msg |-> "Operator does not contain a ./build folder",
             files |-> NoFiles, diag |-> on.diag]
       ELSE [exc |-> "none", msg |-> "",
             files |-> [f \in {"build/Dockerfile.pko"} |->
                          [t |-> "template", template |-> "DOCKERFILE_TEMPLATE",
                           operator_name |-> on.name, github_url |-> up.val]],
             diag |-> on.diag]

\* write_clusterpackage_template, lines 624-633.  e.hack is what ./hack is
\* when line 628 runs: "dir" when ./hack/pko can be made or is a directory
\* already, "file" when ./hack is a regular file, "pko_file" when ./hack is
\* a directory and ./hack/pko a regular file.
write_clusterpackage_template(e) ==
  LET on == get_operator_name(e.git)
  IN IF e.hack = "file"
       \* line 628: mkdir(parents=True) cannot make hack/pko under a file
       THEN [exc |-> "NotADirectoryError",
             msg |-> "[Errno 20] Not a directory: 'hack/pko'",
             files |-> NoFiles, diag |-> on.diag]
     ELSE IF e.hack = "pko_file"
       \* line 628: exist_ok passes over a directory only
       THEN [exc |-> "FileExistsError",
             msg |-> "[Errno 17] File exists: 'hack/pko'",
             files |-> NoFiles, diag |-> on.diag]
       ELSE [exc |-> "none", msg |-> "",
             files |-> [f \in {"hack/pko/clusterpackage.yaml"} |->
                          TemplateText("CLUSTERPACKAGE_TEMPLATE", on.name)],
             diag |-> on.diag \o <<"Writing ClusterPackage template">>]

\* write_tekton_pipelines, lines 636-685.
write_tekton_pipelines(e) ==
  LET on == get_operator_name(e.git)
      up == get_github_url(e.git)
      br == get_default_branch(e.git)
      pipeline(event) ==
        [t |-> "template", template |-> "TEKTON_PIPELINE_TEMPLATE",
         operator_name |-> on.name, github_url |-> up.val, event |-> event,
         default_branch |-> br.val, boilerplate_branch |-> "master"]
  IN IF up.exc # "none"
       THEN [exc |-> up.exc, msg |-> up.msg, files |-> NoFiles, diag |-> on.diag]
     ELSE IF br.exc # "none"
       THEN [exc |-> br.exc, msg |-> br.msg, files |-> NoFiles, diag |-> on.diag]
     ELSE IF ~e.tekton
       THEN [exc |-> "RuntimeError", msg |-> "Operator does not contain a .tekton folder",
             files |-> NoFiles, diag |-> on.diag \o br.diag]
       ELSE [exc |-> "none", msg |-> "",
             files |-> (".tekton/" \o on.name \o "-pko-push.yaml" :> pipeline("push"))
                       @@ (".tekton/" \o on.name \o "-pko-pull-request.yaml"
                             :> pipeline("pull_request")),
             diag |-> on.diag \o br.diag]

---------------------------------------------------------------------------
(* main, lines 772-854, in the steps of its body.  arg holds the command   *)
(* line and what the prompt reads, src the --folder and out the --output.  *)

\* What input() returns or raises at line 817.
Responses == {"y", "yes", " YES ", "Y", "n", "", "yess", "EOFError", "KeyboardInterrupt"}

\* response.strip().lower() in ['y', 'yes'], line 818.
Affirmative(response) == response \in {"y", "yes", " YES ", "Y"}

\* The union of the files of two directories, those of more taking the
\* place of files of the same name.
Overwrite(files, more) ==
  [f \in DOMAIN files \cup DOMAIN more |-> IF f \in DOMAIN more THEN more[f] ELSE files[f]]

\* Mutant: the run goes on whatever the response to the prompt is.
MainConfirm_unasked ==
  /\ fn = "main"
  /\ pc = "confirm"
  /\ pc' = "check"
  /\ UNCHANGED <<fn, arg, hist, src, opname, manifests, annotated, widx, out, exc, wlog,
                 printed, env, status, aux>>

\* Lines 813-824.
MainConfirm ==
  /\ fn = "main"
  /\ pc = "confirm"
  /\ IF arg.yes \/ Affirmative(arg.response)
       THEN /\ pc' = "check"
            /\ status' = status
            /\ printed' = printed
       ELSE \* lines 819-823
            /\ pc' = "exit"
            /\ status' = "0"
            /\ printed' = Append(printed, "Migration cancelled.")
  /\ UNCHANGED <<fn, arg, hist, src, opname, manifests, annotated, widx, out, exc, wlog,
                 env, aux>>

\* Mutant: the folder is not looked at before modify_manifests is called.
MainCheckFolder_unchecked ==
  /\ fn = "main"
  /\ pc = "check"
  /\ LET on == get_operator_name(env.git)
     IN /\ pc' = "load"
        /\ opname' = on.name
        /\ printed' = printed \o on.diag
        /\ status' = status
  /\ UNCHANGED <<fn, arg, hist, src, manifests, annotated, widx, out, exc, wlog, env, aux>>

\* Lines 826-830 and the entry of modify_manifests, lines 696-697.
MainCheckFolder ==
  /\ fn = "main"
  /\ pc = "check"
  /\ IF ~src.tree.exists
       THEN \* lines 827-828
            /\ pc' = "exit"
            /\ status' = "1"
            /\ printed' = Append(printed, "Error: Folder does not exist!")
            /\ opname' = opname
       ELSE LET on == get_operator_name(env.git)
            IN /\ pc' = "load"
               /\ opname' = on.name
               /\ printed' = printed \o on.diag
               /\ status' = status
  /\ UNCHANGED <<fn, arg, hist, src, manifests, annotated, widx, out, exc, wlog, env, aux>>

\* An exception leaves modify_manifests at line 830: nothing in main
\* catches it and the interpreter exits with the traceback.
MainCrash ==
  /\ fn = "main"
  /\ pc = "raised"
  /\ pc' = "exit"
  /\ status' = "1"
  /\ printed' = Append(printed, "Traceback (most recent call last)")
  /\ UNCHANGED <<fn, arg, hist, src, opname, manifests, annotated, widx, out, exc, wlog,
                 env, aux>>

\* Mutant: the call of a generator has no handler, and its exception ends
\* main as one of modify_manifests does.
Generate_uncaught(skip, r, warning, next) ==
  /\ fn = "main"
  /\ IF skip
       THEN /\ aux' = aux
            /\ printed' = printed
            /\ pc' = next
            /\ status' = status
       ELSE /\ aux' = Overwrite(aux, r.files)
            /\ printed' = printed \o r.diag
                          \o (IF r.exc # "none" THEN <<"Traceback (most recent call last)">>
                              ELSE <<>>)
            /\ pc' = IF r.exc # "none" THEN "exit" ELSE next
            /\ status' = IF r.exc # "none" THEN "1" ELSE status
  /\ UNCHANGED <<fn, arg, hist, src, opname, manifests, annotated, widx, out, exc, wlog, env>>

\* One of the three generators, called as lines 832-854 call it: an
\* exception is printed as a warning.
Generate(skip, r, warning, next) ==
  /\ fn = "main"
  /\ IF skip
       THEN /\ aux' = aux
            /\ printed' = printed
       ELSE /\ aux' = Overwrite(aux, r.files)
            /\ printed' = printed \o r.diag
                          \o (IF r.exc # "none" THEN <<warning>> ELSE <<>>)
  /\ pc' = next
  /\ UNCHANGED <<fn, arg, hist, src, opname, manifests, annotated, widx, out, exc, wlog,
                 env, status>>

\* Lines 832-839.
MainDockerfile ==
  /\ pc = "done"
  /\ Generate(arg.no_dockerfile, write_pko_dockerfile(env),
              "Warning: Could not generate Dockerfile", "tekton")

\* Lines 841-848.
MainTekton ==
  /\ pc = "tekton"
  /\ Generate(arg.no_tekton, write_tekton_pipelines(env),
              "Warning: Could not generate Tekton pipelines", "clusterpackage")

\* Lines 850-854.
MainClusterPackage ==
  /\ pc = "clusterpackage"
  /\ Generate(FALSE, write_clusterpackage_template(env),
              "Warning: Could not generate ClusterPackage template", "return")

\* main returns and the interpreter exits, lines 857-858.
MainReturn ==
  /\ fn = "main"
  /\ pc = "return"
  /\ pc' = "exit"
  /\ status' = "0"
  /\ UNCHANGED <<fn, arg, hist, src, opname, manifests, annotated, widx, out, exc, wlog,
                 printed, env, aux>>

\* The repositories main is run in.
MainRemoteLists ==
  {<<RemoteUrl("https", "github.com", "openshift", "certman-operator", TRUE)>>,
   <<RemoteUrl("ssh", "github.com", "someone", "certman-operator", TRUE)>>,
   <<RemoteUrl("ssh", "github.com", "someone", "fork", FALSE),
     RemoteUrl("ssh", "github.com", "openshift", "certman-operator", TRUE)>>,
   <<RemoteUrl("path", "", "openshift", "certman-operator", FALSE)>>,
   <<>>}

\* A line of `git branch --list`.
BranchLine(mark, name) == [mark |-> mark, name |-> name]

MainBranches ==
  {[head_ref |-> <<"main">>, current |-> "feature",
    lines |-> {BranchLine(" ", "main"), BranchLine("*", "feature")}],
   [head_ref |-> <<>>, current |-> "master", lines |-> {BranchLine("*", "master")}],
   [head_ref |-> <<"develop">>, current |-> "feature", lines |-> {BranchLine("*", "feature")}]}

NoGit ==
  [in_git |-> FALSE, remote_ok |-> TRUE, remotes |-> <<>>, current_ok |-> TRUE,
   list_ok |-> TRUE, head_ref |-> <<>>, current |-> "", lines |-> {}]

MainGits ==
  {NoGit}
  \cup {[in_git |-> TRUE, remote_ok |-> TRUE, remotes |-> r, current_ok |-> TRUE,
         list_ok |-> TRUE, head_ref |-> b.head_ref, current |-> b.current,
         lines |-> b.lines] :
          r \in MainRemoteLists, b \in MainBranches}

\* The source folders main is given.
MainSources ==
  {[tree |-> [exists |-> FALSE, nodes |-> {}], recursive |-> TRUE],
   [tree |-> [exists |-> TRUE, nodes |-> {}], recursive |-> FALSE],
   [tree |-> [exists |-> TRUE,
              nodes |-> {FileNode(<<"a.yaml">>, TRUE,
                           Doc(MkManifest(YStr("ServiceAccount"), MkMetadata(YStr("a"), Absent), Absent))),
                         FileNode(<<"a.yml">>, TRUE,
                           Doc(MkManifest(YStr("Deployment"), MkMetadata(YStr("a"), Absent),
                                          OneContainer("X"))))}],
    recursive |-> TRUE],
   [tree |-> [exists |-> TRUE,
              nodes |-> {FileNode(<<"a.yaml">>, TRUE,
                           Doc(MkManifest(YStr("Role"), YNull, Absent)))}],
    recursive |-> TRUE]}

MainArgs ==
  {a \in [yes : BOOLEAN, response : Responses, no_dockerfile : BOOLEAN, no_tekton : BOOLEAN] :
     a.yes => a.response = ""}

InitMain ==
  /\ fn = "main"
  /\ arg \in MainArgs
  /\ hist = <<>>
  /\ pc = "confirm"
  /\ src \in MainSources
  /\ opname = ""
  /\ manifests = <<>>
  /\ annotated = <<>>
  /\ widx = 1
  /\ out = NoDir
  /\ exc = "none"
  /\ wlog = <<>>
  /\ printed = <<>>
  /\ env \in {[used |-> TRUE, git |-> g, build |-> b, tekton |-> t, hack |-> h] :
                g \in MainGits, b \in BOOLEAN, t \in BOOLEAN, h \in {"dir", "file", "pko_file"}}
  /\ status = "none"
  /\ aux = EmptyDict

NextMain ==
  \/ MainConfirm
  \/ MainCheckFolder
  \/ Load
  \/ Annotate
  \/ WriteOne
  \/ WriteDescriptor
  \/ WriteCleanup
  \/ MainCrash
  \/ MainDockerfile
  \/ MainTekton
  \/ MainClusterPackage
  \/ MainReturn

SpecMain == InitMain /\ [][NextMain]_vars

---------------------------------------------------------------------------
(* The git functions called one at a time, as the tests of                 *)
(* TestGitOperations call them with the output of git mocked.              *)

MaxRemotes == 2

UrlForms == {"https", "http", "ssh", "sshurl", "path"}

\* The URLs of the remotes: of openshift or of someone else, with and
\* without the .git suffix, and one on a host with openshift in its name.
GitUrls ==
  {RemoteUrl(f, "github.com", o, "certman-operator", d) :
     f \in UrlForms, o \in {"openshift", "someone"}, d \in BOOLEAN}
  \cup {RemoteUrl("ssh", "github.openshift.example", "someone", "certman-operator", TRUE)}

\* `git remote -v` lists a remote twice, for fetch and for push.
RECURSIVE FetchAndPush(_)
FetchAndPush(list) ==
  IF list = <<>> THEN <<>> ELSE <<Head(list), Head(list)>> \o FetchAndPush(Tail(list))

GitRemoteLists ==
  LET lists == UNION {[1..n -> GitUrls] : n \in 0..MaxRemotes}
  IN lists \cup {FetchAndPush(l) : l \in lists}

BranchNames == {"main", "master", "feature"}

\* The lines of `git branch --list`: the branches in names, those of
\* worktrees checked out in another worktree, current the current one.
BranchLines(names, worktrees, current) ==
  {BranchLine(IF n \in worktrees THEN "+" ELSE IF n = current THEN "*" ELSE " ", n) :
     n \in names}

GitHeadRefs == {<<>>, <<"main">>, <<"master">>, <<"develop">>, <<"release", "main">>}

\* The states of the branches of a repository; current is "" on a
\* detached HEAD.
GitBranchStates ==
  {[head_ref |-> h, current |-> c, current_ok |-> co, list_ok |-> lo,
    lines |-> BranchLines(n, w, c)] :
     h \in GitHeadRefs, c \in BranchNames \cup {""}, co \in BOOLEAN, lo \in BOOLEAN,
     n \in SUBSET BranchNames, w \in SUBSET BranchNames}

GitRemotesArgs ==
  {[git |-> NoGit]}
  \cup {[git |-> [NoGit EXCEPT !.in_git = TRUE, !.remote_ok = ok, !.remotes = r]] :
          ok \in BOOLEAN, r \in GitRemoteLists}

GetDefaultBranchArgs ==
  {[git |-> NoGit]}
  \cup {[git |-> [NoGit EXCEPT !.in_git = TRUE, !.head_ref = b.head_ref,
                               !.current = b.current, !.current_ok = b.current_ok,
                               !.list_ok = b.list_ok, !.lines = b.lines]] :
          b \in {x \in GitBranchStates :
                   \A l \in x.lines :
                     /\ l.mark = "+" => l.name # x.current
                     /\ x.current # "" => \E k \in x.lines : k.name = x.current}}

InitGit ==
  /\ \/ fn \in {"get_remotes", "get_github_url", "get_operator_name"} /\ arg \in GitRemotesArgs
     \/ fn = "get_default_branch" /\ arg \in GetDefaultBranchArgs
  /\ hist = <<>>
  /\ RunIdle

CallGetRemotes ==
  /\ fn = "get_remotes"
  /\ hist = <<>>
  /\ hist' = <<get_remotes(arg.git)>>
  /\ UNCHANGED <<fn, arg, runVars>>

CallGetGithubUrl ==
  /\ fn = "get_github_url"
  /\ hist = <<>>
  /\ hist' = <<get_github_url(arg.git)>>
  /\ UNCHANGED <<fn, arg, runVars>>

CallGetOperatorName ==
  /\ fn = "get_operator_name"
  /\ hist = <<>>
  /\ hist' = <<get_operator_name(arg.git)>>
  /\ UNCHANGED <<fn, arg, runVars>>

CallGetDefaultBranch ==
  /\ fn = "get_default_branch"
  /\ hist = <<>>
  /\ hist' = <<get_default_branch(arg.git)>>
  /\ UNCHANGED <<fn, arg, runVars>>

NextGit ==
  \/ CallGetRemotes
  \/ CallGetGithubUrl
  \/ CallGetOperatorName
  \/ CallGetDefaultBranch

SpecGit == InitGit /\ [][NextGit]_vars

---------------------------------------------------------------------------
(* Properties of a run of main, checked under SpecMain.                    *)

\* The run is past the confirmation: --yes, or an affirmative response.
Confirmed == arg.yes \/ Affirmative(arg.response)

\* The process of main has exited.
Exited == fn = "main" /\ pc = "exit"

\* Nothing has been written: no output directory, no file in it, no
\* Dockerfile, pipeline or ClusterPackage template.
NothingWritten == out = NoDir /\ wlog = <<>> /\ aux = EmptyDict

\* C20 as stated: when the source folder does not exist, main exits with
\* status 1, and nothing is ever written.
C20_MissingFolderExitsOne ==
  (fn = "main" /\ ~src.tree.exists) =>
    /\ NothingWritten
    /\ pc = "exit" => status = "1"

\* C20, amended: when the source folder does not exist, nothing is ever
\* written, and main exits with status 1 and the error message if the run
\* got past the confirmation, with status 0 if it was cancelled there.
C20_MissingFolderNothingWritten ==
  (fn = "main" /\ ~src.tree.exists) =>
    /\ NothingWritten
    /\ pc = "exit" =>
         IF Confirmed
           THEN /\ status = "1"
                /\ printed = <<"Error: Folder does not exist!">>
           ELSE /\ status = "0"
                /\ printed = <<"Migration cancelled.">>

\* main, run with --yes in a repository with build/ and .tekton/, has
\* exited with status 1 on a folder that does not exist.
C20_Witness ==
  /\ Exited
  /\ ~src.tree.exists
  /\ arg.yes
  /\ ~arg.no_dockerfile
  /\ ~arg.no_tekton
  /\ env.git.in_git
  /\ env.build
  /\ env.tekton
  /\ status = "1"
  /\ NothingWritten

\* No remote of the repository is one of openshift.
NoOpenshiftRemote ==
  \A i \in 1..Len(env.git.remotes) : ~ContainsOpenshift(env.git.remotes[i])

\* A precondition of the run fails: no git repository, no openshift
\* remote, or a required directory (the source folder, build/ for the
\* Dockerfile, .tekton/ for the pipelines) is missing.
PreconditionFails ==
  \/ ~env.git.in_git
  \/ NoOpenshiftRemote
  \/ ~src.tree.exists
  \/ ~arg.no_dockerfile /\ ~env.build
  \/ ~arg.no_tekton /\ ~env.tekton

\* C19: a run of main that is past the confirmation and in which a
\* precondition fails exits with a non-zero status.
C19_PreconditionFatal ==
  (Exited /\ Confirmed /\ PreconditionFails) => status \notin {"0", "none"}

\* The part of C19 that holds: the missing source folder is fatal, and the
\* functions that need git, the openshift remote, build/ or .tekton/ fail
\* with a message, which main prints as a warning.
C19_ReportedAsWarnings ==
  (Exited /\ Confirmed) =>
    /\ ~src.tree.exists => status = "1"
    /\ (src.tree.exists /\ exc = "none") =>
         /\ status = "0"
         /\ ~env.git.in_git =>
              CountOf(printed, "Warning: Could not extract operator name") >= 1
         /\ (~arg.no_dockerfile /\ (~env.git.in_git \/ NoOpenshiftRemote \/ ~env.build)) =>
              CountOf(printed, "Warning: Could not generate Dockerfile") = 1
         /\ (~arg.no_tekton /\ (~env.git.in_git \/ NoOpenshiftRemote \/ ~env.tekton)) =>
              CountOf(printed, "Warning: Could not generate Tekton pipelines") = 1


\* C21: without --yes and with a response to the prompt that is not y or
\* yes (trimmed, case-insensitive), or with end of input or an interrupt,
\* main never writes anything and exits with status 0 saying that the
\* migration is cancelled; with --yes the run is never cancelled: it goes on
\* to the check of the folder.
C21_NothingWrittenUnlessConfirmed ==
  fn = "main" =>
    /\ (~arg.yes /\ ~Affirmative(arg.response)) =>
         /\ NothingWritten
         /\ pc \in {"confirm", "exit"}
         /\ pc = "exit" => status = "0" /\ printed = <<"Migration cancelled.">>
    /\ (arg.yes /\ pc # "confirm") => CountOf(printed, "Migration cancelled.") = 0

\* main, run without --yes in a repository in which everything would have
\* been written, has exited on a response that is none of y and yes.
C21_Witness ==
  /\ Exited
  /\ ~arg.yes
  /\ arg.response \in {"yess", "EOFError", "KeyboardInterrupt"}
  /\ src.tree.exists
  /\ src.tree.nodes # {}
  /\ env.git.in_git
  /\ env.build
  /\ env.tekton
  /\ NothingWritten
  /\ status = "0"

---------------------------------------------------------------------------
(* Properties of the git functions, checked under SpecGit.                 *)

\* The branch origin/HEAD points at is main or master.
HeadIsDefault(git) == git.head_ref \in {<<"main">>, <<"master">>}

\* The repository has a local branch of this name.
HasLocalBranch(git, name) == \E l \in git.lines : l.name = name

\* The branch the priority order of the specification gives: origin/HEAD,
\* the current branch, a local main, a local master, main; a git command
\* that fails after the repository check gives main.
BranchByPriority(git) ==
  IF HeadIsDefault(git) THEN git.head_ref[1]
  ELSE IF ~git.current_ok THEN "main"
  ELSE IF git.current \in {"main", "master"} THEN git.current
  ELSE IF ~git.list_ok THEN "main"
  ELSE IF HasLocalBranch(git, "main") THEN "main"
  ELSE IF HasLocalBranch(git, "master") THEN "master"
  ELSE "main"

\* C22: get_default_branch raises the not-in-a-repository error exactly
\* when the repository check fails, and otherwise returns main or master,
\* the one the priority order gives.
C22_DefaultBranchPriority ==
  Called("get_default_branch") =>
    LET g == arg.git
        r == hist[1]
    IN /\ r.exc # "none" <=> ~g.in_git
       /\ ~g.in_git => r.exc = "RuntimeError" /\ r.msg = "Not in a git repository"
       /\ g.in_git => r.val \in {"main", "master"} /\ r.val = BranchByPriority(g)

\* The output of git holds nothing that the parsing of lines 366 and 390
\* takes for something else: the name origin/HEAD points at has no slash,
\* and no branch is checked out in another worktree.
PlainGitOutput(git) ==
  /\ Len(git.head_ref) <= 1
  /\ \A l \in git.lines : l.mark # "+"

\* The part of C22 that holds: the result is always main or master, only
\* the repository check raises, and the priority order is kept on plain
\* output of git.
C22_PriorityOnPlainOutput ==
  Called("get_default_branch") =>
    LET g == arg.git
        r == hist[1]
    IN /\ r.exc # "none" <=> ~g.in_git
       /\ g.in_git => r.val \in {"main", "master"}
       /\ PlainGitOutput(g) => C22_DefaultBranchPriority


\* The place of the first remote whose URL contains openshift, 0 when there
\* is none.
FirstOpenshift(remotes) ==
  IF \E i \in 1..Len(remotes) : ContainsOpenshift(remotes[i])
    THEN CHOOSE i \in 1..Len(remotes) :
           /\ ContainsOpenshift(remotes[i])
           /\ \A j \in 1..(i - 1) : ~ContainsOpenshift(remotes[j])
    ELSE 0

\* The https URL of a remote, without the .git suffix: its own when it is
\* one of a web server, the one of github.com for the organisation and the
\* repository of an ssh remote.
HttpsUrlOf(u) ==
  "https://" \o (IF u.form \in {"https", "http"} THEN u.host ELSE "github.com")
  \o "/" \o u.org \o "/" \o u.repo

\* C23: get_github_url raises a RuntimeError when no remote contains
\* openshift, and what it returns is the https URL, without .git, of the
\* first remote that does.
C23_GithubUrlOfFirstOpenshift ==
  (Called("get_github_url") /\ arg.git.in_git /\ arg.git.remote_ok) =>
    LET remotes == arg.git.remotes
        first == FirstOpenshift(remotes)
        r == hist[1]
    IN /\ first = 0 => r.exc = "RuntimeError"
       /\ r.exc = "none" => first # 0 /\ r.val = HttpsUrlOf(remotes[first])
       /\ (first # 0 /\ remotes[first].form # "path") => r.exc = "none"

\* The part of C23 that holds: the claim for a first openshift remote of
\* the forms https://... and git@host:org/repo, the two that the error
\* message of line 295 names; one that is a path raises a RuntimeError; and
\* no result is built from a remote without openshift.
C23_OnExpectedForms ==
  (Called("get_github_url") /\ arg.git.in_git /\ arg.git.remote_ok) =>
    LET remotes == arg.git.remotes
        first == FirstOpenshift(remotes)
        r == hist[1]
    IN /\ r.exc \in {"none", "RuntimeError"}
       /\ first = 0 => r.exc = "RuntimeError"
       /\ r.exc = "none" => first # 0
       /\ (first # 0 /\ remotes[first].form \in {"https", "ssh"}) =>
            r.exc = "none" /\ r.val = HttpsUrlOf(remotes[first])
       /\ (first # 0 /\ remotes[first].form = "path") => r.exc = "RuntimeError"
       /\ (first # 0 /\ remotes[first].form = "http") =>
            r.val = UrlString([remotes[first] EXCEPT !.dotgit = FALSE])

---------------------------------------------------------------------------
(* Further properties of the single functions, checked under SpecUnit.     *)

\* The value of the phase annotation of a manifest, Absent when it has
\* none.
PhaseAnnotation(manifest) ==
  DictGet(AnnotationsDict(MetadataDict(manifest)), "package-operator.run/phase")

\* The names of the phases the descriptor of get_pko_manifest lists.
DescriptorPhases ==
  LET phases == get_pko_manifest("certman-operator")["spec"].v["phases"].v
  IN {phases[i].v["name"] : i \in 1..Len(phases)}

\* annotate_manifests has assigned a phase to the document of the i-th
\* string: the document is of a kind of the table, or its phase annotation
\* is not the one it came with.
PhaseAssigned(strs, r, i) ==
  LET a == r.annotated[PlaceOf(strs, i)]
      d == safe_load(strs[i]).val.v
  IN \/ TablePhase(DictGet(d, "kind")) # ""
     \/ PhaseAnnotation(a) # PhaseAnnotation(d)

\* C24: a phase that annotate_manifests assigns is crds, rbac or deploy
\* and is listed in the descriptor of get_pko_manifest; a manifest of
\* another kind, Namespace included, keeps the phase annotation it came
\* with, so namespace, cleanup-rbac and cleanup-deploy are never assigned.
C24_AssignedPhases ==
  (Called("annotate_manifests") /\ hist[1].exc = "none") =>
    \A i \in 1..Len(arg.strs) :
      Kept(arg.strs[i]) =>
        LET a == hist[1].annotated[PlaceOf(arg.strs, i)]
            d == safe_load(arg.strs[i]).val.v
        IN /\ PhaseAssigned(arg.strs, hist[1], i) =>
                /\ PhaseAnnotation(a) \in {YStr("crds"), YStr("rbac"), YStr("deploy")}
                /\ PhaseAnnotation(a) \in DescriptorPhases
           /\ DictGet(d, "kind") = YStr("Namespace") => PhaseAnnotation(a) = PhaseAnnotation(d)

\* annotate_manifests has returned the manifests of a Namespace that came
\* with the namespace phase and of a Role that came with cleanup-rbac.
C24_Witness ==
  /\ Called("annotate_manifests")
  /\ hist[1].exc = "none"
  /\ Len(hist[1].annotated) = 2
  /\ Len(arg.strs) = 2
  /\ DictGet(hist[1].annotated[1], "kind") = YStr("Namespace")
  /\ PhaseAnnotation(hist[1].annotated[1]) = YStr("namespace")
  /\ DictGet(hist[1].annotated[2], "kind") = YStr("Role")
  /\ PhaseAnnotation(safe_load(arg.strs[2]).val.v) = YStr("cleanup-rbac")
  /\ PhaseAnnotation(hist[1].annotated[2]) = YStr("rbac")


\* Every entry of the container list of the manifest is a mapping whose
\* image is the placeholder.
AllImagesTemplated(manifest) ==
  /\ HasContainersPath(manifest)
  /\ ContainersOf(manifest).t = "seq"
  /\ \A i \in 1..Len(ContainersOf(manifest).v) :
       /\ ContainersOf(manifest).v[i].t = "map"
       /\ DictGet(ContainersOf(manifest).v[i].v, "image") = YStr("{{ .config.image }}")

\* C25: set_image_template is all-or-nothing: the manifest it returns has
\* the image of every entry of the container list set to the placeholder,
\* or is the manifest it was given.
C25_AllOrNothing ==
  Called("set_image_template") =>
    \/ AllImagesTemplated(hist[1].manifest)
    \/ hist[1].manifest = arg.manifest

\* The part of C25 that holds: the result is all or nothing unless the
\* container list holds an entry that is not a mapping after one that is;
\* the entries before the first that is no mapping are then rewritten and
\* the others are as they were.
C25_RewrittenUpToFirstBadEntry ==
  Called("set_image_template") =>
    LET m == arg.manifest
        r == hist[1].manifest
        mixed == /\ HasContainersPath(m)
                 /\ ContainersOf(m).t = "seq"
                 /\ \E i, j \in 1..Len(ContainersOf(m).v) :
                      /\ i < j
                      /\ ContainersOf(m).v[i].t = "map"
                      /\ ContainersOf(m).v[j].t # "map"
    IN /\ hist[1].exc = "none"
       /\ ~mixed => C25_AllOrNothing
       /\ mixed =>
            LET old == ContainersOf(m).v
                new == ContainersOf(r).v
                bad == CHOOSE j \in 1..Len(old) :
                         old[j].t # "map" /\ \A k \in 1..(j - 1) : old[k].t = "map"
            IN /\ Len(new) = Len(old)
               /\ \A k \in 1..Len(old) :
                    IF k < bad
                      THEN new[k] = YMap(DictSet(old[k].v, "image", YStr("{{ .config.image }}")))
                      ELSE new[k] = old[k]

---------------------------------------------------------------------------
(* Further properties of a run of modify_manifests, checked under Spec.    *)

\* The run has written the descriptor and the cleanup job template, and
\* the output directory holds both.
BothWritten ==
  /\ \E i \in 1..Len(wlog) : wlog[i].file = "manifest.yaml"
  /\ \E i \in 1..Len(wlog) : wlog[i].file = "Cleanup-OLM-Job.yaml"
  /\ out.exists
  /\ {"manifest.yaml", "Cleanup-OLM-Job.yaml"} \subseteq DOMAIN out.files

\* The run has written nothing: the output directory is as the run found
\* it, which for a second run is as the first left it.
RunWroteNothing ==
  /\ wlog = <<>>
  /\ IF hist = <<>> THEN out \in {NoDir, StaleDir} ELSE out = hist[1]

\* The body of C26 for a run that is over.
DescriptorIffRead ==
  /\ manifests # <<>> <=> BothWritten
  /\ manifests = <<>> => RunWroteNothing
  /\ (manifests # <<>> /\ \A i \in 1..Len(manifests) : ~Kept(manifests[i])) =>
       /\ BothWritten
       /\ \A i \in 1..Len(wlog) : wlog[i].file \in {"manifest.yaml", "Cleanup-OLM-Job.yaml"}

\* C26: a run of modify_manifests that is over has written the descriptor
\* and the cleanup job template if and only if it read at least one file:
\* with no file read it has written nothing and created no directory, with
\* files read of which none parsed to a mapping it has created the
\* directory and written the two files.
C26_DescriptorIffRead == (fn = "none" /\ RunOver) => DescriptorIffRead

\* The part of C26 that holds: the same of every run that returns.
C26_OnReturn == (fn = "none" /\ pc = "done") => DescriptorIffRead


\* The last two writes of the run are those of the descriptor and of the
\* cleanup job template, in this order, every write before them is one of
\* lines 716-717, and the two files hold what these writes put there.
DescriptorAndCleanupLast ==
  /\ Len(wlog) >= 2
  /\ wlog[Len(wlog) - 1] = [file |-> "manifest.yaml",
                            text |-> YamlText(<<YMap(get_pko_manifest(opname))>>)]
  /\ wlog[Len(wlog)] = [file |-> "Cleanup-OLM-Job.yaml",
                        text |-> TemplateText("CLEANUP_JOB_TEMPLATE", opname)]
  /\ \A i \in 1..(Len(wlog) - 2) :
       /\ wlog[i].file # "manifest.yaml"
       /\ wlog[i].text.t = "yaml"
  /\ out.files["manifest.yaml"] = YamlText(<<YMap(get_pko_manifest(opname))>>)
  /\ out.files["Cleanup-OLM-Job.yaml"] = TemplateText("CLEANUP_JOB_TEMPLATE", opname)

\* C27: a run of modify_manifests that is over and has written output has
\* written the descriptor after every file of a resource and the cleanup
\* job template after the descriptor, and manifest.yaml and
\* Cleanup-OLM-Job.yaml hold the descriptor and the template.
C27_DescriptorAndCleanupAtEnd ==
  (fn = "none" /\ RunOver /\ wlog # <<>>) => DescriptorAndCleanupLast

\* The part of C27 that holds: the same of every run that returns, and in
\* no run is a file of a resource written after the descriptor.
C27_OnReturn ==
  fn = "none" =>
    /\ (pc = "done" /\ wlog # <<>>) => DescriptorAndCleanupLast
    /\ \A i, j \in 1..Len(wlog) :
         (i < j /\ wlog[i] = [file |-> "manifest.yaml",
                              text |-> YamlText(<<YMap(get_pko_manifest(opname))>>)]) =>
           /\ j = i + 1
           /\ wlog[j].text = TemplateText("CLEANUP_JOB_TEMPLATE", opname)

---------------------------------------------------------------------------
(* Further properties of a run of main, checked under SpecMain.            *)

\* modify_manifests has returned and main has run to its end.
GeneratorsRan == Exited /\ Confirmed /\ src.tree.exists /\ exc = "none"

\* The generator is called and raises.
DockerfileFails == ~arg.no_dockerfile /\ write_pko_dockerfile(env).exc # "none"
TektonFails == ~arg.no_tekton /\ write_tekton_pipelines(env).exc # "none"
ClusterPackageFails == write_clusterpackage_template(env).exc # "none"

\* The output directory holds what modify_manifests wrote: every file
\* written holds the text of the last write to it.
OutAsWritten ==
  /\ wlog = <<>> => out = NoDir
  /\ \A i \in 1..Len(wlog) :
       (\A j \in (i + 1)..Len(wlog) : wlog[j].file # wlog[i].file) =>
         /\ wlog[i].file \in DOMAIN out.files
         /\ out.files[wlog[i].file] = wlog[i].text

\* C28: when main is over after modify_manifests has returned, every
\* generator that raised is reported by one warning, every generator that
\* was called and did not raise has written its files whatever the
\* generators before it did, the exit status is 0, and the output directory
\* is as modify_manifests left it.
C28_GeneratorFailureIsWarning ==
  GeneratorsRan =>
    /\ status = "0"
    /\ CountOf(printed, "Warning: Could not generate Dockerfile")
         = IF DockerfileFails THEN 1 ELSE 0
    /\ CountOf(printed, "Warning: Could not generate Tekton pipelines")
         = IF TektonFails THEN 1 ELSE 0
    /\ CountOf(printed, "Warning: Could not generate ClusterPackage template")
         = IF ClusterPackageFails THEN 1 ELSE 0
    /\ (~arg.no_dockerfile /\ ~DockerfileFails) =>
         DOMAIN write_pko_dockerfile(env).files \subseteq DOMAIN aux
    /\ (~arg.no_tekton /\ ~TektonFails) =>
         /\ DOMAIN write_tekton_pipelines(env).files # {}
         /\ \A f \in DOMAIN write_tekton_pipelines(env).files :
              f \in DOMAIN aux /\ aux[f] = write_tekton_pipelines(env).files[f]
    /\ ~ClusterPackageFails =>
         /\ "hack/pko/clusterpackage.yaml" \in DOMAIN aux
         /\ aux["hack/pko/clusterpackage.yaml"]
              = write_clusterpackage_template(env).files["hack/pko/clusterpackage.yaml"]
    /\ OutAsWritten

\* main is over: the Dockerfile could not be written for want of build/,
\* the pipelines and the ClusterPackage template were written after it,
\* and the PKO manifests are in the output directory.
C28_Witness ==
  /\ GeneratorsRan
  /\ ~arg.no_dockerfile
  /\ ~arg.no_tekton
  /\ ~env.build
  /\ DockerfileFails
  /\ ~TektonFails
  /\ ~ClusterPackageFails
  /\ CountOf(printed, "Warning: Could not generate Dockerfile") = 1
  /\ Cardinality(DOMAIN aux) = 3
  /\ Len(wlog) >= 3
  /\ status = "0"

---------------------------------------------------------------------------
(* migrate_build_pipeline.py, lines 4-26: the script run on the file       *)
(* sys.argv[1] names.  text is what the file holds; the result is the      *)
(* exception that ended the script and what the file holds afterwards.     *)

\* The pipelineRef of lines 15-22.
PipelineRefParam(name, value) ==
  YMap([k \in {"name", "value"} |-> IF k = "name" THEN YStr(name) ELSE YStr(value)])

PipelineRef ==
  YMap([k \in {"resolver", "params"} |->
    IF k = "resolver" THEN YStr("git")
    ELSE YSeq(<<PipelineRefParam("url", "https://github.com/openshift/boilerplate"),
                PipelineRefParam("revision", "master"),
                PipelineRefParam("pathInRepo",
                                 "pipelines/docker-build-oci-ta/pipeline.yaml")>>)])

\* data.get('spec', {}), line 8: the value under spec, or a new dict that
\* is no part of data.
SpecOfData(data) ==
  IF "spec" \in DOMAIN data
    THEN [val |-> data["spec"], attached |-> TRUE]
    ELSE [val |-> YMap(EmptyDict), attached |-> FALSE]

migrate_build_pipeline(text) ==
  LET loaded == safe_load(text) IN
  IF loaded.exc # "none"
    \* line 6
    THEN [exc |-> loaded.exc, file |-> text]
  ELSE IF loaded.val.t # "map"
    \* line 8: None, a string and a list have no method get
    THEN [exc |-> "AttributeError", file |-> text]
  ELSE
    LET data == loaded.val.v
        spec == SpecOfData(data)
    IN IF spec.val.t \in {"null", "str"}
         \* line 11: no method pop
         THEN [exc |-> "AttributeError", file |-> text]
       ELSE IF spec.val.t = "seq"
         \* line 11: list.pop takes one argument, an index
         THEN [exc |-> "TypeError", file |-> text]
       ELSE
         LET \* lines 11-22
             changed == DictSet(DictPop(DictPop(spec.val.v, "pipelineSpec"), "taskRunSpecs"),
                                "pipelineRef", PipelineRef)
             \* spec is the object under data['spec'] or none of data
             after == IF spec.attached THEN DictSet(data, "spec", YMap(changed)) ELSE data
         IN \* lines 25-26
            [exc |-> "none", file |-> yaml_dump(after)]

---------------------------------------------------------------------------
(* validate_yaml.py, lines 11-42.  The path of sys.argv[1] is a file, a    *)
(* directory or neither; entries are what the path is (a file) or what     *)
(* listdir returns for it, in the order it returns them.                   *)

\* os.path.splitext of a name, line 29: the text from the last dot on,
\* unless only dots come before it.
splitext(name) ==
  LET parts == NameParts(name)
      dots == {i \in 1..Len(parts) : parts[i] = "."}
  IN IF dots = {} THEN ""
     ELSE LET i == CHOOSE d \in dots : \A e \in dots : e <= d
          IN IF \E k \in 1..(i - 1) : parts[k] # "."
               THEN JoinParts(SubSeq(parts, i, Len(parts)))
               ELSE ""

\* The loop of lines 28-40 from the i-th file on.  open and read are
\* outside the try: a file that cannot be read ends the script with the
\* traceback and status 1.
RECURSIVE ValidateFrom(_, _, _, _)
ValidateFrom(files, i, error, validated) ==
  IF i > Len(files)
    \* line 42
    THEN [status |-> IF error THEN "1" ELSE "0", exc |-> "none", validated |-> validated]
  ELSE IF splitext(files[i].name) \notin {".yml", ".yaml"}
    \* lines 30-31
    THEN ValidateFrom(files, i + 1, error, validated)
  ELSE IF ~files[i].readable
    \* lines 34-35
    THEN [status |-> "1", exc |-> "OSError", validated |-> Append(validated, files[i].name)]
  ELSE IF safe_load(files[i].text).exc # "none"
    \* lines 38-40
    THEN ValidateFrom(files, i + 1, TRUE, Append(validated, files[i].name))
    ELSE ValidateFrom(files, i + 1, error, Append(validated, files[i].name))

RECURSIVE OnlyFiles(_)
OnlyFiles(entries) ==
  IF entries = <<>> THEN <<>>
  ELSE (IF Head(entries).type = "file" THEN <<Head(entries)>> ELSE <<>>)
       \o OnlyFiles(Tail(entries))

validate_yaml(argc, kind, entries) ==
  IF argc # 2
    \* lines 11-13
    THEN [status |-> "1", exc |-> "none", validated |-> <<>>]
  ELSE IF kind = "file"
    \* lines 17-18
    THEN ValidateFrom(entries, 1, FALSE, <<>>)
  ELSE IF kind = "dir"
    \* lines 19-22
    THEN ValidateFrom(OnlyFiles(entries), 1, FALSE, <<>>)
    \* lines 23-25
    ELSE [status |-> "1", exc |-> "none", validated |-> <<>>]

---------------------------------------------------------------------------
(* The two scripts run one at a time.                                      *)

MaxEntries == 2

\* What spec is in the files migrate_build_pipeline.py is run on.
PipelineSpecs ==
  {Absent, YNull, YStr("oops"), YSeq(<<>>)}
  \cup {YMap([k \in D |-> YStr(k)]) :
          D \in SUBSET {"pipelineSpec", "taskRunSpecs", "pipelineRef", "params", "workspaces"}}

MigrateArgs ==
  {[text |-> Doc(MkManifest(k, md, sp))] :
     k \in {Absent, YStr("PipelineRun")},
     md \in {Absent, MkMetadata(YStr("a"), Absent)},
     sp \in PipelineSpecs}
  \cup {[text |-> t] : t \in {GarbageText, YamlText(<<>>), YamlText(<<YSeq(<<YStr("a")>>)>>),
                              YamlText(<<YStr("oops")>>),
                              YamlText(<<YMap(EmptyDict), YMap(EmptyDict)>>)}}

\* What the files validate_yaml.py looks at hold.
ValidateTexts ==
  {Doc(MkManifest(YStr("ConfigMap"), MkMetadata(YStr("a"), Absent), Absent)),
   GarbageText,
   YamlText(<<>>),
   YamlText(<<YMap(EmptyDict), YMap(EmptyDict)>>)}

DirEntry(name, type, readable, text) ==
  [name |-> name, type |-> type, readable |-> readable, text |-> text]

EntryNames == {Names[i] : i \in 1..Len(Names)}

ValidateEntries ==
  {DirEntry(n, "dir", TRUE, YamlText(<<>>)) : n \in EntryNames}
  \cup {DirEntry(n, "file", TRUE, t) : n \in EntryNames, t \in ValidateTexts}
  \cup {DirEntry(n, "file", FALSE, YamlText(<<>>)) : n \in EntryNames}

ValidateArgs ==
  {[argc |-> 1, kind |-> "none", entries |-> <<>>],
   [argc |-> 3, kind |-> "file", entries |-> <<>>],
   [argc |-> 2, kind |-> "missing", entries |-> <<>>]}
  \cup {[argc |-> 2, kind |-> "file", entries |-> <<e>>] :
          e \in {x \in ValidateEntries : x.type = "file"}}
  \cup {[argc |-> 2, kind |-> "dir", entries |-> l] :
          l \in {s \in UNION {[1..n -> ValidateEntries] : n \in 0..MaxEntries} :
                   \A i, j \in 1..Len(s) : s[i].name = s[j].name => i = j}}

InitScripts ==
  /\ \/ fn = "migrate_build_pipeline" /\ arg \in MigrateArgs
     \/ fn = "validate_yaml" /\ arg \in ValidateArgs
  /\ hist = <<>>
  /\ RunIdle

RunMigrateBuildPipeline ==
  /\ fn = "migrate_build_pipeline"
  /\ hist = <<>>
  /\ hist' = <<migrate_build_pipeline(arg.text)>>
  /\ UNCHANGED <<fn, arg, runVars>>

RunValidateYaml ==
  /\ fn = "validate_yaml"
  /\ hist = <<>>
  /\ hist' = <<validate_yaml(arg.argc, arg.kind, arg.entries)>>
  /\ UNCHANGED <<fn, arg, runVars>>

NextScripts ==
  \/ RunMigrateBuildPipeline
  \/ RunValidateYaml

SpecScripts == InitScripts /\ [][NextScripts]_vars

---------------------------------------------------------------------------
(* Properties of the two scripts, checked under SpecScripts.               *)

\* The mapping the file held before the script ran.
DataBefore == safe_load(arg.text).val.v

\* The document written back is a mapping whose spec holds the pipelineRef
\* and neither pipelineSpec nor taskRunSpecs, every other key of the
\* document and of its spec being as before.
MigratedFrom(before, file) ==
  /\ file.t = "yaml"
  /\ Len(file.docs) = 1
  /\ file.docs[1].t = "map"
  /\ LET after == file.docs[1].v
     IN /\ "spec" \in DOMAIN after
        /\ after["spec"].t = "map"
        /\ "pipelineRef" \in DOMAIN after["spec"].v
        /\ after["spec"].v["pipelineRef"] = PipelineRef
        /\ "pipelineSpec" \notin DOMAIN after["spec"].v
        /\ "taskRunSpecs" \notin DOMAIN after["spec"].v
        /\ Without(after, {"spec"}) = Without(before, {"spec"})
        /\ ("spec" \in DOMAIN before /\ before["spec"].t = "map") =>
             Without(after["spec"].v, {"pipelineRef"})
               = Without(before["spec"].v, {"pipelineRef", "pipelineSpec", "taskRunSpecs"})

\* C29: run on a file that holds a YAML mapping, one without spec
\* included, migrate_build_pipeline.py writes back the document with a
\* spec that holds the pipelineRef and neither pipelineSpec nor
\* taskRunSpecs, every other key unchanged.
C29_PipelineRefWritten ==
  (Called("migrate_build_pipeline") /\ ParsesToMapping(arg.text)) =>
    /\ hist[1].exc = "none"
    /\ MigratedFrom(DataBefore, hist[1].file)

\* The part of C29 that holds: the same of every mapping whose spec is a
\* mapping; a mapping without spec is written back as it was, without
\* spec, and on a spec that is no mapping the script ends in an exception
\* and leaves the file as it was.
C29_WhenSpecIsMapping ==
  (Called("migrate_build_pipeline") /\ ParsesToMapping(arg.text)) =>
    /\ ("spec" \in DOMAIN DataBefore /\ DataBefore["spec"].t = "map") =>
         /\ hist[1].exc = "none"
         /\ MigratedFrom(DataBefore, hist[1].file)
    /\ "spec" \notin DOMAIN DataBefore =>
         /\ hist[1].exc = "none"
         /\ hist[1].file = YamlText(<<YMap(DataBefore)>>)
    /\ ("spec" \in DOMAIN DataBefore /\ DataBefore["spec"].t # "map") =>
         /\ hist[1].exc \in {"AttributeError", "TypeError"}
         /\ hist[1].file = arg.text

\* The name ends with .yml or .yaml after a stem.
HasYamlExtension(name) ==
  LET parts == NameParts(name)
  IN /\ Len(parts) >= 3
     /\ parts[Len(parts) - 1] = "."
     /\ parts[Len(parts)] \in {"yml", "yaml"}

\* The files validate_yaml.py examines: the file of the path, or the files
\* of the directory, in the order of the listing.
Examined == IF arg.kind = "file" THEN arg.entries ELSE OnlyFiles(arg.entries)

\* The examined files with extension .yml or .yaml.
ExaminedYaml == SelectSeq(Examined, LAMBDA e : HasYamlExtension(e.name))

\* The file cannot be read or its text does not parse.
FileFailsToParse(e) == ~e.readable \/ FailsToParse(e.text)

\* The script was given a file or a directory and has run.
ValidateRan == Called("validate_yaml") /\ arg.argc = 2 /\ arg.kind \in {"file", "dir"}

\* The exit status is other than 0 exactly when an examined file with one
\* of the extensions fails to parse, and every such file was validated.
ValidatedAsClaimed ==
  /\ hist[1].status # "0" <=>
       \E i \in 1..Len(ExaminedYaml) : FileFailsToParse(ExaminedYaml[i])
  /\ hist[1].validated = [i \in 1..Len(ExaminedYaml) |-> ExaminedYaml[i].name]

\* C30: given a file or a directory, validate_yaml.py exits with a status
\* other than 0 if and only if an examined file with extension .yml or
\* .yaml fails to parse, and it validates every examined file with one of
\* these extensions, whatever the files before it did.
C30_ExitStatusAndAllValidated == ValidateRan => ValidatedAsClaimed

\* The part of C30 that holds: the same when every examined file with one
\* of the two extensions can be read; a file that cannot be read ends the
\* script with status 1 and the files after it are not validated.
C30_WhenFilesReadable ==
  ValidateRan =>
    IF \A i \in 1..Len(ExaminedYaml) : ExaminedYaml[i].readable
      THEN ValidatedAsClaimed
      ELSE /\ hist[1].status = "1"
           /\ hist[1].exc = "OSError"
           /\ LET bad == CHOOSE i \in 1..Len(ExaminedYaml) :
                           /\ ~ExaminedYaml[i].readable
                           /\ \A k \in 1..(i - 1) : ExaminedYaml[k].readable
              IN hist[1].validated = [i \in 1..bad |-> ExaminedYaml[i].name]

=============================================================================
